---- MODULE Spec2Model ----
(***************************************************************************)
(* A model of the Bitcoin MCP server's outbound RPC client                 *)
(* (src/src/bitcoin_client.py: the sliding-window rate limiter and the     *)
(* retrying _make_request) and of the bare JSON-RPC front door             *)
(* (src/src/main.py: handle_rpc, route_method) with the tool handlers      *)
(* that sit between the two (src/src/tools/*.py).                          *)
(*                                                                         *)
(* Time is counted in whole seconds.  The server runs on one asyncio event *)
(* loop: a coroutine runs without interruption from one await to the next, *)
(* so every action below is the code between two awaits of one task.       *)
(* datetime.utcnow() is taken to be non-decreasing.                        *)
(***************************************************************************)
EXTENDS Integers, Sequences, FiniteSets, TLC

(***************************************************************************)
(* Bounds of the model.                                                    *)
(***************************************************************************)
\* the largest configured RATE_LIMIT_PER_MINUTE explored
MaxRateLimit == 2
\* the largest configured MAX_RETRIES explored
MaxRetriesCfg == 3
\* the number of _make_request calls one behaviour makes
MaxCalls == 3
\* the number of bare JSON-RPC requests one behaviour receives
MaxRequests == 2

\* the tasks (in-flight requests) that share the one transport instance
Tasks == {1, 2}
\* the one task of the behaviours in which the calls follow one another
OneTask == {1}
\* seconds that may pass between two events (the window's edge cases)
Deltas == {0, 59, 60, 61}

(***************************************************************************)
(* Program constants.                                                      *)
(***************************************************************************)
\* timedelta(minutes=1), in seconds
Window == 60
\* BitcoinMCPError's default code
DefaultCode == -32000
\* ValidationError's code
ValidationCode == -32602
\* NetworkError's code
NetworkCode == -32003
\* RateLimitError's code
RateLimitCode == -32004
\* the code of the envelope's "Internal error"
InternalCode == -32603
\* the code of the envelope's "Parse error"
ParseErrorCode == -32700
\* the code of the envelope's "Invalid Request"
InvalidRequestCode == -32600

(***************************************************************************)
(* JSON values that cross the backend connection.                          *)
(***************************************************************************)
\* the `result` member of a reply: JSON null, or one of two distinct values
Results == {"null", "r1", "r2"}

\* The `error` member of a reply.  shape "null": absent or JSON null;
\* "falsy": non-null but falsy in Python ({}, 0, "", false); "scalar": a
\* truthy value that is not an object (a string, a number, a list);
\* "object": a non-empty JSON object, with or without code (-5 when it has
\* one) and message.
ErrObj(shape, hasCode, hasMessage) ==
    [shape |-> shape, hasCode |-> hasCode, code |-> -5,
     hasMessage |-> hasMessage, message |-> "upstream msg"]
NullError == ErrObj("null", FALSE, FALSE)
ErrObjs ==
    {NullError, ErrObj("falsy", FALSE, FALSE), ErrObj("scalar", FALSE, FALSE)}
    \cup {ErrObj("object", c, m) : c \in BOOLEAN, m \in BOOLEAN}

\* What one HTTP POST to the node can come back with.  kind "transport": an
\* httpx.HTTPError (connection error, timeout, non-2xx status); "badjson":
\* a 2xx body that is not JSON; "json": a 2xx JSON body, an object or not.
Reply(kind, isObject, error, result) ==
    [kind |-> kind, isObject |-> isObject, error |-> error, result |-> result]
TransportFailure == Reply("transport", FALSE, NullError, "null")
BadJson == Reply("badjson", FALSE, NullError, "null")
NonObjectJson == Reply("json", FALSE, NullError, "null")
Replies ==
    {TransportFailure, BadJson, NonObjectJson}
    \cup {Reply("json", TRUE, NullError, r) : r \in Results}
    \cup {Reply("json", TRUE, e, "r1") : e \in ErrObjs \ {NullError}}

(***************************************************************************)
(* The error taxonomy (src/src/utils/errors.py) and the Python exceptions  *)
(* outside it that the code can raise.                                     *)
(***************************************************************************)
\* the `data` attribute of an error: nothing, a backend error object, or
\* {"field": name}
NoData == [kind |-> "none", error |-> NullError, field |-> ""]
ErrorData(e) == [kind |-> "error", error |-> e, field |-> ""]
FieldData(f) == [kind |-> "field", error |-> NullError, field |-> f]

BitcoinMCPError(type, message, code, data) ==
    [type |-> type, message |-> message, code |-> code, data |-> data]
BitcoinRPCError(message, code, data) ==
    BitcoinMCPError("BitcoinRPCError", message, code, data)
NetworkError(message) ==
    BitcoinMCPError("NetworkError", message, NetworkCode, NoData)
RateLimitError(message) ==
    BitcoinMCPError("RateLimitError", message, RateLimitCode, NoData)
\* an exception that is no BitcoinMCPError (code 0: it carries none)
PythonError(type, message) ==
    [type |-> type, message |-> message, code |-> 0, data |-> NoData]
NoError == PythonError("None", "")

TaxonomyTypes ==
    {"BitcoinRPCError", "ValidationError", "NetworkError", "RateLimitError"}
IsTaxonomyError(e) == e.type \in TaxonomyTypes

\* how a call ends: with a value, or with an exception
Returned(v) == [kind |-> "result", value |-> v, error |-> NoError]
Raised(e) == [kind |-> "error", value |-> "null", error |-> e]
Pending == [kind |-> "pending", value |-> "null", error |-> NoError]

(***************************************************************************)
(* State.                                                                  *)
(***************************************************************************)
VARIABLES
    now,            \* datetime.utcnow(), in seconds
    rate_limit,     \* BitcoinRPCClient.rate_limit (config.RATE_LIMIT_PER_MINUTE)
    max_retries,    \* BitcoinRPCClient.max_retries (config.MAX_RETRIES)
    request_times,  \* BitcoinRPCClient.request_times
    call,           \* per task: the _make_request call it is in
    checks,         \* history: every _check_rate_limit call, in order
    ncalls,         \* history: the number of _make_request calls started
    globals,        \* main.py's bitcoin_client, *_tools: set or None
    external_client,\* AddressTools.external_client: "unopened", "opened", "closed"
    req,            \* the bare JSON-RPC request being handled
    nreq,           \* history: the number of requests received
    startup         \* lifespan's startup: whether it has run, and how

vars == <<now, rate_limit, max_retries, request_times, call, checks, ncalls,
          globals, external_client, req, nreq, startup>>

\* the state of the JSON-RPC front door, which the client's own actions
\* leave alone
front == <<globals, external_client, req, nreq, startup>>

(***************************************************************************)
(* BitcoinRPCClient._check_rate_limit                                      *)
(***************************************************************************)
\* a variant that keeps a request for the whole of its 60th second
UnexpiredInclusive(req_time, t) == t - req_time <= Window

\* `now - req_time < timedelta(minutes=1)`
Unexpired(req_time, t) == t - req_time < Window

\* a variant that never drops a request
PurgeNothing(times, t) == times

\* the list comprehension that drops the requests older than one minute
Purge(times, t) == SelectSeq(times, LAMBDA req_time : Unexpired(req_time, t))

\* a variant that admits one request more than the limit
WindowFullStrict(times, limit) == Len(times) > limit

\* `len(self.request_times) >= self.rate_limit`
WindowFull(times, limit) == Len(times) >= limit

RateLimitMessage(limit) ==
    "Rate limit of " \o ToString(limit) \o " requests per minute exceeded"

\* a variant that admits without recording the request
CheckRateLimitNoAppend(times, t, limit) ==
    LET kept == Purge(times, t) IN
    [ok |-> ~WindowFull(kept, limit), times |-> kept]

\* a variant that records the request before it decides
CheckRateLimitRecordsFirst(times, t, limit) ==
    LET kept == Purge(times, t) IN
    [ok |-> ~WindowFull(kept, limit), times |-> Append(kept, t)]

\* The whole method at time t: the window it leaves, and whether it raised.
CheckRateLimit(times, t, limit) ==
    LET kept == Purge(times, t) IN
    IF WindowFull(kept, limit)
    THEN [ok |-> FALSE, times |-> kept]
    ELSE [ok |-> TRUE, times |-> Append(kept, t)]

(***************************************************************************)
(* BitcoinRPCClient._make_request                                          *)
(***************************************************************************)
\* what a task's call has done: a POST issued, or a backoff sleep begun
PostEvent == [ev |-> "post", secs |-> 0]
SleepEvent(secs) == [ev |-> "sleep", secs |-> secs]

\* a task that is in no call
IdleCall ==
    [pc |-> "idle", method |-> "", attempt |-> 0, last_error |-> NoError,
     wake |-> 0, events |-> <<>>, replies |-> <<>>, admitted |-> FALSE,
     started |-> 0, outcome |-> Pending]

\* a variant whose exponent counts the attempts from 1
BackoffFromOne(attempt) == 2 ^ (attempt + 1)

\* `2 ** attempt`
Backoff(attempt) == 2 ^ attempt

\* a variant that also backs off after the final attempt
AttemptsRemainInclusive(attempt, retries) == attempt < retries

\* `attempt < self.max_retries - 1`
AttemptsRemain(attempt, retries) == attempt < retries - 1

\* `await self.client.post(...)`: the call suspends in the POST
IssuePost(c) == [c EXCEPT !.pc = "post", !.events = Append(@, PostEvent)]

\* the call ends: `return` or an exception leaving _make_request
EndCall(c, o) == [c EXCEPT !.pc = "done", !.outcome = o]

\* `raise last_error` after the loop; raising None is a TypeError
RaiseLastError(c) ==
    IF c.last_error = NoError
    THEN EndCall(c, Raised(PythonError("TypeError",
                 "exceptions must derive from BaseException")))
    ELSE EndCall(c, Raised(c.last_error))

\* `for attempt in range(self.max_retries)`: the next iteration, or the
\* loop's end
LoopFrom(c, attempt, retries) ==
    IF attempt < retries
    THEN IssuePost([c EXCEPT !.attempt = attempt])
    ELSE RaiseLastError(c)

\* the RateLimitError _check_rate_limit raises
RateLimited(c, limit) == EndCall(c, Raised(RateLimitError(RateLimitMessage(limit))))

\* a variant that goes on to the POST whatever the admission check said
StartCallUnchecked(method, admitted, limit, retries, t) ==
    LoopFrom([IdleCall EXCEPT !.method = method, !.admitted = admitted,
                              !.started = t], 0, retries)

\* From the call, at time t, to its first await: the admission check, then
\* the loop.
StartCall(method, admitted, limit, retries, t) ==
    LET c == [IdleCall EXCEPT !.method = method, !.admitted = admitted,
                              !.started = t] IN
    IF ~admitted THEN RateLimited(c, limit) ELSE LoopFrom(c, 0, retries)

\* a variant that ignores the code the backend reports
UpstreamErrorDefaultCode(error) ==
    BitcoinRPCError(
        "RPC Error: " \o (IF error.hasMessage THEN error.message ELSE "Unknown error"),
        DefaultCode,
        ErrorData(error))

\* the BitcoinRPCError built from a reply's error object
UpstreamError(error) ==
    BitcoinRPCError(
        "RPC Error: " \o (IF error.hasMessage THEN error.message ELSE "Unknown error"),
        IF error.hasCode THEN error.code ELSE DefaultCode,
        ErrorData(error))

\* `if result.get("error")`: Python truthiness of the error member
ErrorTruthy(error) == error.shape \in {"scalar", "object"}

\* `except httpx.HTTPError`: record the error, then sleep or break
OnTransportFailure(c, retries, t) ==
    LET failed == [c EXCEPT !.last_error =
                      NetworkError("Network error: POST " \o ToString(c.attempt + 1)
                                   \o " failed")]
    IN  IF AttemptsRemain(c.attempt, retries)
        THEN [failed EXCEPT !.pc = "sleep",
                            !.wake = t + Backoff(c.attempt),
                            !.events = Append(@, SleepEvent(Backoff(c.attempt)))]
        ELSE RaiseLastError(failed)

\* a variant that records the unparseable body as a network failure
OnBadJsonAsNetwork(c) ==
    RaiseLastError([c EXCEPT !.last_error =
        NetworkError("Network error: Invalid JSON response")])

\* `except json.JSONDecodeError`: record the error and break
OnBadJson(c) ==
    RaiseLastError([c EXCEPT !.last_error =
        BitcoinRPCError("Invalid JSON response", DefaultCode, NoData)])

\* The body of the `try` once the POST has returned a 2xx JSON body.
OnJson(c, r) ==
    IF ~r.isObject
    THEN EndCall(c, Raised(PythonError("AttributeError", "no attribute 'get'")))
    ELSE IF ErrorTruthy(r.error)
    THEN IF r.error.shape = "scalar"
         THEN EndCall(c, Raised(PythonError("AttributeError", "no attribute 'get'")))
         ELSE EndCall(c, Raised(UpstreamError(r.error)))
    ELSE EndCall(c, Returned(r.result))

\* One loop iteration from the POST's completion, at time t, to the next
\* await or to the call's end.
OnReply(c, r, retries, t) ==
    LET got == [c EXCEPT !.replies = Append(@, r)] IN
    CASE r.kind = "transport" -> OnTransportFailure(got, retries, t)
      [] r.kind = "badjson"   -> OnBadJson(got)
      [] OTHER                -> OnJson(got, r)

\* `await asyncio.sleep(...)` is over: `continue` with the next attempt
OnWake(c, retries) == LoopFrom(c, c.attempt + 1, retries)

(***************************************************************************)
(* The bare JSON-RPC front door: src/src/main.py.                          *)
(***************************************************************************)
\* A JSON value given for a parameter.  kind "absent": the key is not in
\* params; "null"; "int" with value n; "str" with text s; "bool" with n = 1
\* for true.
PV(kind, n, s) == [kind |-> kind, n |-> n, s |-> s]
Absent == PV("absent", 0, "")
JsonNull == PV("null", 0, "")
JInt(n) == PV("int", n, "")
JStr(str) == PV("str", 0, str)
JBool(b) == PV("bool", IF b THEN 1 ELSE 0, "")

\* `x is None`
IsNone(v) == v.kind \in {"absent", "null"}
\* Python truthiness: `not x` is its negation
Truthy(v) ==
    CASE v.kind = "int"  -> v.n # 0
      [] v.kind = "bool" -> v.n = 1
      [] v.kind = "str"  -> v.s # ""
      [] OTHER           -> FALSE
\* str(x), as an f-string renders it
Show(v) ==
    CASE v.kind = "int"  -> ToString(v.n)
      [] v.kind = "bool" -> IF v.n = 1 THEN "True" ELSE "False"
      [] v.kind = "str"  -> v.s
      [] OTHER           -> "None"

ParamNames ==
    {"height", "include_transactions", "block_hash", "tx_hash", "count",
     "start_height", "end_height", "address", "limit", "currency", "days"}

\* the mapping `params`; kind "object": a JSON object with the members
\* vals; "other": null, a list or a scalar, which has no .get
NoVals == [k \in ParamNames |-> Absent]
Params(kind, vals) == [kind |-> kind, vals |-> vals]
EmptyParams == Params("object", NoVals)

\* `params.get(key)`: None when the key is absent
Get(p, key) == IF p.vals[key].kind = "absent" THEN JsonNull ELSE p.vals[key]
\* `params.get(key, default)`
GetDefault(p, key, default) ==
    IF p.vals[key].kind = "absent" THEN default ELSE p.vals[key]

\* the operation catalog, by the group route_method tests
BlockchainMethods ==
    {"get_blockchain_info", "get_block_by_height", "get_block_by_hash",
     "get_transaction", "get_latest_blocks", "search_blocks"}
NetworkMethods ==
    {"get_network_status", "get_mempool_stats", "get_mining_info", "get_peer_info"}
AddressMethods ==
    {"validate_address", "get_address_balance", "get_address_transactions",
     "get_address_utxos", "analyze_address_activity"}
MarketMethods ==
    {"get_current_price", "get_price_history", "get_market_stats",
     "get_fear_greed_index"}
BitcoinMethods == BlockchainMethods \cup NetworkMethods \cup AddressMethods
Catalog == BitcoinMethods \cup MarketMethods

\* ValidationError(message, field): the field, when given, becomes data
ValidationError(message, field) ==
    BitcoinMCPError("ValidationError", message, ValidationCode,
                    IF field # "" THEN FieldData(field) ELSE NoData)

\* the module globals lifespan sets: each is an object (TRUE) or None
Globals(b) ==
    [bitcoin_client |-> b, blockchain_tools |-> b, network_tools |-> b,
     address_tools |-> b, market_tools |-> b]

\* How lifespan went.  stage: "pending" before it has run, "done" once it
\* has yielded, "stopped" once its shutdown half has run; raised: an
\* exception left the `try` block of startup; reachable: the node at
\* BITCOIN_RPC_URL answers (startup sends it nothing: __aenter__ only
\* creates the httpx client); client: the transport's httpx.AsyncClient,
\* "unopened", "opened" by __aenter__ or "closed" by __aexit__.
StartupState(stage, raised, reachable, client) ==
    [stage |-> stage, raised |-> raised, reachable |-> reachable,
     client |-> client]
NotStarted == StartupState("pending", FALSE, TRUE, "unopened")
Started == StartupState("done", FALSE, TRUE, "opened")

\* What route_method does before its first await.
DoRaise(e) == [do |-> "raise", error |-> e, op |-> "", args |-> NoVals]
DoReturnNone == [do |-> "none", error |-> NoError, op |-> "", args |-> NoVals]
DoHandler(op, args) == [do |-> "handler", error |-> NoError, op |-> op, args |-> args]
\* `return await get_server_status()`
DoStatus == DoHandler("get_server_status", NoVals)

\* the handler's argument list: the named arguments, the others absent
Args(pairs) == [k \in ParamNames |-> IF k \in DOMAIN pairs THEN pairs[k] ELSE Absent]

\* `params.get` on something that is no dict
NoGet == DoRaise(PythonError("AttributeError", "object has no attribute 'get'"))

\* the branch of a method that takes the one required argument `key`,
\* tested with `if not <key>`
RequiredTruthy(op, p, key) ==
    IF p.kind # "object" THEN NoGet
    ELSE IF ~Truthy(Get(p, key))
    THEN DoRaise(ValidationError("Missing '" \o key \o "' parameter", key))
    ELSE DoHandler(op, Args([x \in {key} |-> Get(p, key)]))

\* The if/elif chain of route_method from "# Blockchain methods" on.
RouteChain(method, p) ==
    CASE method \in {"get_blockchain_info", "get_network_status",
                     "get_mempool_stats", "get_mining_info", "get_peer_info"} ->
            DoHandler(method, NoVals)
      [] method = "get_block_by_height" ->
            IF p.kind # "object" THEN NoGet
            ELSE IF IsNone(Get(p, "height"))
            THEN DoRaise(ValidationError("Missing 'height' parameter", "height"))
            ELSE DoHandler(method, Args(
                    [x \in {"height", "include_transactions"} |->
                        IF x = "height" THEN Get(p, "height")
                        ELSE GetDefault(p, "include_transactions", JBool(FALSE))]))
      [] method = "get_block_by_hash" ->
            IF p.kind # "object" THEN NoGet
            ELSE IF ~Truthy(Get(p, "block_hash"))
            THEN DoRaise(ValidationError("Missing 'block_hash' parameter", "block_hash"))
            ELSE DoHandler(method, Args(
                    [x \in {"block_hash", "include_transactions"} |->
                        IF x = "block_hash" THEN Get(p, "block_hash")
                        ELSE GetDefault(p, "include_transactions", JBool(FALSE))]))
      [] method = "get_transaction" -> RequiredTruthy(method, p, "tx_hash")
      [] method = "get_latest_blocks" ->
            IF p.kind # "object" THEN NoGet
            ELSE DoHandler(method, Args(
                    [x \in {"count"} |-> GetDefault(p, "count", JInt(10))]))
      [] method = "search_blocks" ->
            IF p.kind # "object" THEN NoGet
            ELSE IF IsNone(Get(p, "start_height")) \/ IsNone(Get(p, "end_height"))
            THEN DoRaise(ValidationError(
                    "Missing 'start_height' or 'end_height' parameter", ""))
            ELSE DoHandler(method, Args(
                    [x \in {"start_height", "end_height"} |-> Get(p, x)]))
      [] method \in {"validate_address", "get_address_balance",
                     "get_address_utxos", "analyze_address_activity"} ->
            RequiredTruthy(method, p, "address")
      [] method = "get_address_transactions" ->
            IF p.kind # "object" THEN NoGet
            ELSE IF ~Truthy(Get(p, "address"))
            THEN DoRaise(ValidationError("Missing 'address' parameter", "address"))
            ELSE DoHandler(method, Args(
                    [x \in {"address", "limit"} |->
                        IF x = "address" THEN Get(p, "address")
                        ELSE GetDefault(p, "limit", JInt(25))]))
      [] method = "get_current_price" ->
            IF p.kind # "object" THEN NoGet
            ELSE DoHandler(method, Args(
                    [x \in {"currency"} |-> GetDefault(p, "currency", JStr("usd"))]))
      [] method = "get_price_history" ->
            IF p.kind # "object" THEN NoGet
            ELSE DoHandler(method, Args(
                    [x \in {"days", "currency"} |->
                        IF x = "days" THEN GetDefault(p, "days", JInt(7))
                        ELSE GetDefault(p, "currency", JStr("usd"))]))
      [] method \in {"get_market_stats", "get_fear_greed_index"} ->
            DoHandler(method, NoVals)
      [] OTHER ->
            DoRaise(ValidationError("Method '" \o method \o "' not found", ""))

\* route_method up to its first await, with the globals g.  The market
\* test is an `if` of its own and the chain of `elif`s hangs from it: a
\* market method whose tools are there ends the statement, and the function
\* returns None.
Route(method, p, g) ==
    IF method = "get_server_status" THEN DoStatus
    ELSE IF /\ method \in BitcoinMethods
            /\ ~(g.bitcoin_client /\ g.blockchain_tools
                  /\ g.network_tools /\ g.address_tools)
    THEN DoRaise(ValidationError(
            "Bitcoin RPC client not available. Please check your configuration.", ""))
    ELSE IF method \in MarketMethods
    THEN IF ~g.market_tools
         THEN DoRaise(ValidationError(
                 "Market tools not available. Please check your configuration.", ""))
         ELSE DoReturnNone
    ELSE RouteChain(method, p)

(***************************************************************************)
(* MCPProtocol.call_tool: src/src/mcp_protocol.py.                         *)
(***************************************************************************)
\* The params of MCPProtocol.call_tool: an object with the members name and
\* arguments, or (kind "other") something that has no .get.
ToolParams(kind, name, arguments) ==
    [kind |-> kind, name |-> name, arguments |-> arguments]
NoToolParams == ToolParams("object", Absent, Params("absent", NoVals))
\* `params.get("name")`, `params.get("arguments", {})`
ToolName(tp) == IF tp.name.kind = "absent" THEN JsonNull ELSE tp.name
ToolArguments(tp) ==
    IF tp.arguments.kind = "absent" THEN EmptyParams ELSE tp.arguments

\* the keys of TOOLS
TOOLS ==
    {"get_blockchain_info", "get_block_by_height", "get_block_by_hash",
     "get_transaction", "get_latest_blocks", "search_blocks",
     "get_network_status", "get_mempool_stats", "get_mining_info",
     "get_peer_info", "validate_address", "get_address_balance",
     "get_address_transactions", "get_address_utxos",
     "analyze_address_activity", "get_current_price", "get_price_history",
     "get_market_stats", "get_fear_greed_index"}

\* a variant that goes on to the branch whether the tools are there or not
GuardedNever(available, group, way) == way

\* `if not self.<group>_tools: raise ValidationError("<Group> tools not
\* available")`, then the rest of the branch
Guarded(available, group, way) ==
    IF ~available
    THEN DoRaise(ValidationError(group \o " tools not available", ""))
    ELSE way

\* `arguments.get` on something that is no dict
NoArgumentsGet == DoRaise(PythonError("AttributeError", "object has no attribute 'get'"))

\* the branch of a tool that takes the one required argument `key`
ToolRequiredTruthy(name, a, key) ==
    IF a.kind # "object" THEN NoArgumentsGet
    ELSE IF ~Truthy(Get(a, key))
    THEN DoRaise(ValidationError("Missing '" \o key \o "' parameter", key))
    ELSE DoHandler(name, Args([x \in {key} |-> Get(a, key)]))

\* The if/elif chain inside call_tool's `try`, with the arguments a and the
\* tool instances t the protocol object holds.
ToolChain(name, a, t) ==
    CASE name = "get_blockchain_info" ->
            Guarded(t.blockchain_tools, "Blockchain", DoHandler(name, NoVals))
      [] name = "get_block_by_height" ->
            Guarded(t.blockchain_tools, "Blockchain",
                IF a.kind # "object" THEN NoArgumentsGet
                ELSE IF IsNone(Get(a, "height"))
                THEN DoRaise(ValidationError("Missing 'height' parameter", "height"))
                ELSE DoHandler(name, Args(
                        [x \in {"height", "include_transactions"} |->
                            IF x = "height" THEN Get(a, "height")
                            ELSE GetDefault(a, "include_transactions", JBool(FALSE))])))
      [] name = "get_block_by_hash" ->
            Guarded(t.blockchain_tools, "Blockchain",
                IF a.kind # "object" THEN NoArgumentsGet
                ELSE IF ~Truthy(Get(a, "block_hash"))
                THEN DoRaise(ValidationError("Missing 'block_hash' parameter", "block_hash"))
                ELSE DoHandler(name, Args(
                        [x \in {"block_hash", "include_transactions"} |->
                            IF x = "block_hash" THEN Get(a, "block_hash")
                            ELSE GetDefault(a, "include_transactions", JBool(FALSE))])))
      [] name = "get_transaction" ->
            Guarded(t.blockchain_tools, "Blockchain",
                    ToolRequiredTruthy(name, a, "tx_hash"))
      [] name = "get_latest_blocks" ->
            Guarded(t.blockchain_tools, "Blockchain",
                IF a.kind # "object" THEN NoArgumentsGet
                ELSE DoHandler(name, Args(
                        [x \in {"count"} |-> GetDefault(a, "count", JInt(10))])))
      [] name = "search_blocks" ->
            Guarded(t.blockchain_tools, "Blockchain",
                IF a.kind # "object" THEN NoArgumentsGet
                ELSE IF IsNone(Get(a, "start_height")) \/ IsNone(Get(a, "end_height"))
                THEN DoRaise(ValidationError(
                        "Missing 'start_height' or 'end_height' parameter", ""))
                ELSE DoHandler(name, Args(
                        [x \in {"start_height", "end_height"} |-> Get(a, x)])))
      [] name \in {"get_network_status", "get_mempool_stats", "get_mining_info",
                   "get_peer_info"} ->
            Guarded(t.network_tools, "Network", DoHandler(name, NoVals))
      [] name \in {"validate_address", "get_address_balance", "get_address_utxos",
                   "analyze_address_activity"} ->
            Guarded(t.address_tools, "Address", ToolRequiredTruthy(name, a, "address"))
      [] name = "get_address_transactions" ->
            Guarded(t.address_tools, "Address",
                IF a.kind # "object" THEN NoArgumentsGet
                ELSE IF ~Truthy(Get(a, "address"))
                THEN DoRaise(ValidationError("Missing 'address' parameter", "address"))
                ELSE DoHandler(name, Args(
                        [x \in {"address", "limit"} |->
                            IF x = "address" THEN Get(a, "address")
                            ELSE GetDefault(a, "limit", JInt(25))])))
      [] name = "get_current_price" ->
            Guarded(t.market_tools, "Market",
                IF a.kind # "object" THEN NoArgumentsGet
                ELSE DoHandler(name, Args(
                        [x \in {"currency"} |-> GetDefault(a, "currency", JStr("usd"))])))
      [] name = "get_price_history" ->
            Guarded(t.market_tools, "Market",
                IF a.kind # "object" THEN NoArgumentsGet
                ELSE DoHandler(name, Args(
                        [x \in {"days", "currency"} |->
                            IF x = "days" THEN GetDefault(a, "days", JInt(7))
                            ELSE GetDefault(a, "currency", JStr("usd"))])))
      [] name \in {"get_market_stats", "get_fear_greed_index"} ->
            Guarded(t.market_tools, "Market", DoHandler(name, NoVals))
      [] OTHER ->
            DoRaise(ValidationError("Tool '" \o name \o "' not implemented", ""))

\* the `except Exception` of call_tool, for what the chain does before its
\* first await
InTry(name, way) ==
    IF way.do = "raise" /\ ~IsTaxonomyError(way.error)
    THEN DoRaise(ValidationError(
            "Error executing tool '" \o name \o "': " \o way.error.message, ""))
    ELSE way

\* call_tool up to its first await
ToolRoute(tp, t) ==
    IF tp.kind # "object" THEN NoGet
    ELSE IF ~Truthy(ToolName(tp))
    THEN DoRaise(ValidationError("Missing tool name", "name"))
    ELSE IF ~(ToolName(tp).kind = "str" /\ ToolName(tp).s \in TOOLS)
    THEN DoRaise(ValidationError("Unknown tool: " \o Show(ToolName(tp)), "name"))
    ELSE InTry(ToolName(tp).s, ToolChain(ToolName(tp).s, ToolArguments(tp), t))

(***************************************************************************)
(* The tool handlers: src/src/tools/blockchain.py, network.py, address.py, *)
(* and get_server_status of src/src/main.py.                               *)
(***************************************************************************)
\* texts the requests of the model carry.  Hash64 is 64 hex digits;
\* GenesisAddress is a P2PKH address whose base58 checksum is right.
Hash64 == "000000000019d6689c085ae165831e934ff763ae46a2a6c172b3f1b60a8ce26f"
GenesisAddress == "1A1zP1eP5QGefi2DMPTfTL5SLmv7DivfNa"
\* the texts of the model that int(x) accepts, with their values, and those
\* int(x, 16) accepts
DecimalTexts == {"7"}
HexTexts == {Hash64, "abc", "7"}
\* the texts of the model that pass the address pattern and checksum
WellFormedAddresses == {GenesisAddress}

\* the values Python orders against an int (int, and bool as 0/1)
IsNumber(v) == v.kind \in {"int", "bool"}

\* validate_block_height: int(height) succeeds and lies in 0..1000000
validate_block_height(v) ==
    \/ IsNumber(v) /\ 0 <= v.n /\ v.n <= 1000000
    \/ v.kind = "str" /\ v.s \in DecimalTexts

\* validate_transaction_hash: a non-empty str of 64 hex digits
validate_transaction_hash(v) ==
    v.kind = "str" /\ Len(v.s) = 64 /\ v.s \in HexTexts

validate_block_hash(v) == validate_transaction_hash(v)

\* validate_bitcoin_address
validate_bitcoin_address(v) == v.kind = "str" /\ v.s \in WellFormedAddresses

\* the TypeError of an ordering or an arithmetic operation on operands
\* Python does not order or subtract
OperandTypeError == PythonError("TypeError", "unsupported operand types")
\* the AttributeError or TypeError of using None where a value is needed
NoneTypeError == PythonError("AttributeError", "'NoneType' object has no attribute 'get'")

\* `x <= 0 or x > 50`, the bounds test of count and of limit
OutOfOneToFifty(v) == v.n <= 0 \/ v.n > 50
\* `days <= 0 or days > 365`
OutOfOneYear(v) == v.n <= 0 \/ v.n > 365

\* What a handler does before its `try`: the exception it raises there, or
\* NoError when it goes on.
Precheck(op, args) ==
    CASE op = "get_block_by_height" ->
            IF ~validate_block_height(args["height"])
            THEN ValidationError("Invalid block height: " \o Show(args["height"]), "height")
            ELSE NoError
      [] op = "get_block_by_hash" ->
            IF ~validate_block_hash(args["block_hash"])
            THEN ValidationError("Invalid block hash: " \o Show(args["block_hash"]), "block_hash")
            ELSE NoError
      [] op = "get_transaction" ->
            IF ~validate_transaction_hash(args["tx_hash"])
            THEN ValidationError("Invalid transaction hash: " \o Show(args["tx_hash"]), "tx_hash")
            ELSE NoError
      [] op = "get_latest_blocks" ->
            IF ~IsNumber(args["count"]) THEN OperandTypeError
            ELSE IF OutOfOneToFifty(args["count"])
            THEN ValidationError("Count must be between 1 and 50", "count")
            ELSE NoError
      [] op = "search_blocks" ->
            IF \/ ~validate_block_height(args["start_height"])
               \/ ~validate_block_height(args["end_height"])
            THEN ValidationError("Invalid block height range", "")
            ELSE IF ~IsNumber(args["start_height"]) \/ ~IsNumber(args["end_height"])
            THEN OperandTypeError
            ELSE IF args["start_height"].n > args["end_height"].n
            THEN ValidationError("Start height must be less than or equal to end height", "")
            ELSE IF args["end_height"].n - args["start_height"].n > 100
            THEN ValidationError("Range too large, maximum 100 blocks", "")
            ELSE NoError
      [] op = "validate_address" ->
            IF ~validate_bitcoin_address(args["address"])
            THEN ValidationError("Invalid Bitcoin address format: " \o Show(args["address"]), "address")
            ELSE NoError
      [] op \in {"get_address_balance", "get_address_utxos", "analyze_address_activity"} ->
            IF ~validate_bitcoin_address(args["address"])
            THEN ValidationError("Invalid Bitcoin address: " \o Show(args["address"]), "address")
            ELSE NoError
      [] op = "get_address_transactions" ->
            IF ~validate_bitcoin_address(args["address"])
            THEN ValidationError("Invalid Bitcoin address: " \o Show(args["address"]), "address")
            ELSE IF ~IsNumber(args["limit"]) THEN OperandTypeError
            ELSE IF OutOfOneToFifty(args["limit"])
            THEN ValidationError("Limit must be between 1 and 50", "limit")
            ELSE NoError
      [] op = "get_price_history" ->
            IF ~IsNumber(args["days"]) THEN OperandTypeError
            ELSE IF OutOfOneYear(args["days"])
            THEN ValidationError("Days must be between 1 and 365", "days")
            ELSE NoError
      [] OTHER -> NoError

\* What a market handler does inside its `try` before its await:
\* `currency.lower()`, an AttributeError when currency is no str.
TryCheck(op, args) ==
    IF op \in {"get_current_price", "get_price_history"}
       /\ args["currency"].kind # "str"
    THEN PythonError("AttributeError", "object has no attribute 'lower'")
    ELSE NoError

\* a variant in which no await's failure is passed over
RpcStepNoSwallow(method, swallow, deref) ==
    [via |-> "rpc", method |-> method, swallow |-> FALSE, deref |-> deref,
     on_http |-> "", on_other |-> ""]

\* One await of a handler's `try` block.  via "rpc": a method of the
\* BitcoinRPCClient; via "ext": a GET through AddressTools.external_client,
\* inside `async with`; via "mkt": a GET through MarketTools.external_client.
\* swallow: the await sits in a `try` whose bare `except` continues.
\* deref: "now" when the code uses the value (.get, arithmetic) before the
\* next await, "end" when it does so after the last await, "no" when it
\* only passes the value on.  on_http and on_other: the message prefixes of
\* the `except` clauses around an "ext" await.
RpcStep(method, swallow, deref) ==
    [via |-> "rpc", method |-> method, swallow |-> swallow, deref |-> deref,
     on_http |-> "", on_other |-> ""]
ExtStep(path, on_http, on_other) ==
    [via |-> "ext", method |-> path, swallow |-> FALSE, deref |-> "now",
     on_http |-> on_http, on_other |-> on_other]

MarketStep(path, on_http, on_other) ==
    [via |-> "mkt", method |-> path, swallow |-> FALSE, deref |-> "now",
     on_http |-> on_http, on_other |-> on_other]

\* the awaits of get_address_balance, get_address_transactions and
\* get_address_utxos
BalanceStep(args) ==
    ExtStep("/address",
            "Failed to fetch balance for address " \o Show(args["address"]) \o ": ",
            "Error getting address balance: ")
TransactionsStep(args) ==
    ExtStep("/address/txs",
            "Failed to fetch transactions for address " \o Show(args["address"]) \o ": ",
            "Error getting address transactions: ")
UtxosStep(args) ==
    ExtStep("/address/utxo",
            "Failed to fetch UTXOs for address " \o Show(args["address"]) \o ": ",
            "Error getting address UTXOs: ")

\* the number of awaits a handler's `try` block makes when none fails
\* (g: the globals, for get_server_status)
NumSteps(op, args, g) ==
    CASE op = "get_server_status" -> IF g.bitcoin_client THEN 1 ELSE 0
      [] op \in {"get_blockchain_info", "get_block_by_hash", "get_transaction",
                 "get_peer_info", "validate_address", "get_address_balance",
                 "get_address_transactions", "get_address_utxos",
                 "get_current_price", "get_price_history", "get_market_stats",
                 "get_fear_greed_index"} -> 1
      [] op \in {"get_block_by_height", "get_mining_info"} -> 2
      [] op \in {"get_network_status", "analyze_address_activity"} -> 3
      [] op = "get_mempool_stats" -> 7
      [] op = "get_latest_blocks" -> 1 + 2 * args["count"].n
      [] op = "search_blocks" ->
            2 * (args["end_height"].n - args["start_height"].n + 1)
      [] OTHER -> 0

\* the i-th await of the handler
StepAt(op, args, i) ==
    CASE op = "get_server_status" -> RpcStep("getblockchaininfo", FALSE, "now")
      [] op = "get_blockchain_info" -> RpcStep("getblockchaininfo", FALSE, "no")
      [] op = "get_block_by_height" ->
            IF i = 1 THEN RpcStep("getblockhash", FALSE, "no")
            ELSE RpcStep("getblock", FALSE, "no")
      [] op = "get_block_by_hash" -> RpcStep("getblock", FALSE, "no")
      [] op = "get_transaction" -> RpcStep("getrawtransaction", FALSE, "no")
      [] op = "get_latest_blocks" ->
            IF i = 1 THEN RpcStep("getblockcount", FALSE, "now")
            ELSE IF i % 2 = 0 THEN RpcStep("getblockhash", FALSE, "no")
            ELSE RpcStep("getblock", FALSE, "now")
      [] op = "search_blocks" ->
            IF i % 2 = 1 THEN RpcStep("getblockhash", FALSE, "no")
            ELSE RpcStep("getblockheader", FALSE, "now")
      [] op = "get_network_status" ->
            IF i = 1 THEN RpcStep("getnetworkinfo", FALSE, "end")
            ELSE IF i = 2 THEN RpcStep("getblockchaininfo", FALSE, "end")
            ELSE RpcStep("getmempoolinfo", FALSE, "end")
      [] op = "get_mempool_stats" ->
            IF i = 1 THEN RpcStep("getmempoolinfo", FALSE, "end")
            ELSE RpcStep("estimatesmartfee", TRUE, "now")
      [] op = "get_mining_info" ->
            IF i = 1 THEN RpcStep("getmininginfo", FALSE, "end")
            ELSE RpcStep("getblockchaininfo", FALSE, "end")
      [] op = "get_peer_info" -> RpcStep("getnetworkinfo", FALSE, "now")
      [] op = "validate_address" -> RpcStep("validateaddress", FALSE, "now")
      [] op = "get_address_balance" -> BalanceStep(args)
      [] op = "get_address_transactions" -> TransactionsStep(args)
      [] op = "get_address_utxos" -> UtxosStep(args)
      [] op = "analyze_address_activity" ->
            IF i = 1 THEN BalanceStep(args)
            ELSE IF i = 2 THEN TransactionsStep(args)
            ELSE UtxosStep(args)
      [] op = "get_current_price" ->
            MarketStep("/simple/price", "Failed to fetch Bitcoin price: ",
                       "Error getting market data: ")
      [] op = "get_price_history" ->
            MarketStep("/coins/bitcoin/market_chart",
                       "Failed to fetch Bitcoin price history: ",
                       "Error getting price history: ")
      [] op = "get_market_stats" ->
            MarketStep("/coins/bitcoin", "Failed to fetch Bitcoin market stats: ",
                       "Error getting market stats: ")
      [] op = "get_fear_greed_index" ->
            MarketStep("/fng", "Failed to fetch Fear & Greed Index: ",
                       "Error getting Fear & Greed Index: ")
      [] OTHER -> RpcStep("", FALSE, "no")

\* the message prefix of the `except Exception` clause that closes the
\* handler's `try` block; "" for the handlers whose only clauses are those
\* around their one GET
FailPrefix(op, args) ==
    CASE op = "get_blockchain_info" -> "Failed to get blockchain info: "
      [] op = "get_block_by_height" ->
            "Failed to get block at height " \o Show(args["height"]) \o ": "
      [] op = "get_block_by_hash" ->
            "Failed to get block " \o Show(args["block_hash"]) \o ": "
      [] op = "get_transaction" ->
            "Failed to get transaction " \o Show(args["tx_hash"]) \o ": "
      [] op = "get_latest_blocks" -> "Failed to get latest blocks: "
      [] op = "search_blocks" ->
            "Failed to search blocks in range " \o Show(args["start_height"])
                \o "-" \o Show(args["end_height"]) \o ": "
      [] op = "get_network_status" -> "Failed to get network status: "
      [] op = "get_mempool_stats" -> "Failed to get mempool stats: "
      [] op = "get_mining_info" -> "Failed to get mining info: "
      [] op = "get_peer_info" -> "Failed to get peer info: "
      [] op = "validate_address" ->
            "Failed to validate address " \o Show(args["address"]) \o ": "
      [] op = "analyze_address_activity" ->
            "Failed to analyze address " \o Show(args["address"]) \o ": "
      [] OTHER -> ""

\* What a handler returns: a JSON value built from the values its awaits
\* gave (parts), of the shape its operation fixes, with the text of a caught
\* exception where it reports one.  None is Python's None.
Value(shape, parts, text) == [shape |-> shape, parts |-> parts, text |-> text]
None == Value("None", <<>>, "")

\* how a handler, or route_method, ends
HandlerReturned(v) == [kind |-> "result", value |-> v, error |-> NoError]
HandlerRaised(e) == [kind |-> "error", value |-> None, error |-> e]
HandlerPending == [kind |-> "pending", value |-> None, error |-> NoError]

\* what a GET through the external client comes back with: a JSON body of
\* the expected shape, JSON null, or an httpx.HTTPError
ExtReplies == {"data", "null", "httperror"}
ExternalFailure == PythonError("HTTPError", "GET failed")
\* entering `async with` on an httpx.AsyncClient that has been closed
ClientClosed ==
    PythonError("RuntimeError",
                "Cannot reopen a client instance, once it has been closed.")

(***************************************************************************)
(* The envelope: what handle_rpc puts on the wire.                         *)
(***************************************************************************)
\* BitcoinMCPError.to_json_rpc_error: data only when it is truthy
to_json_rpc_error(e) ==
    [code |-> e.code, message |-> e.message,
     has_data |-> e.data.kind # "none", data |-> e.data]
\* a variant that answers every such failure as an internal error
ErrorMemberGeneric(code, message) ==
    [code |-> InternalCode, message |-> "Internal error",
     has_data |-> FALSE, data |-> NoData]
ErrorMember(code, message) ==
    [code |-> code, message |-> message, has_data |-> FALSE, data |-> NoData]
NoErrorMember == ErrorMember(0, "")

ResultResponse(value, id) ==
    [sent |-> TRUE, status |-> 200, jsonrpc |-> "2.0",
     has_result |-> TRUE, result |-> value,
     has_error |-> FALSE, error |-> NoErrorMember, id |-> id]
ErrorResponse(status, error, id) ==
    [sent |-> TRUE, status |-> status, jsonrpc |-> "2.0",
     has_result |-> FALSE, result |-> None,
     has_error |-> TRUE, error |-> error, id |-> id]
NoResponse ==
    [sent |-> FALSE, status |-> 0, jsonrpc |-> "",
     has_result |-> FALSE, result |-> None,
     has_error |-> FALSE, error |-> NoErrorMember, id |-> JsonNull]

\* a variant whose error responses carry a result member as well
EnvelopeBoth(outcome, id) ==
    IF outcome.kind = "result" THEN ResultResponse(outcome.value, id)
    ELSE [ErrorResponse(200, ErrorMember(InternalCode, "Internal error"), id)
             EXCEPT !.has_result = TRUE]

\* The `try` of handle_rpc around route_method: the response for the way
\* route_method ended.
Envelope(outcome, id) ==
    IF outcome.kind = "result" THEN ResultResponse(outcome.value, id)
    ELSE IF IsTaxonomyError(outcome.error)
    THEN ErrorResponse(200, to_json_rpc_error(outcome.error), id)
    ELSE ErrorResponse(200, ErrorMember(InternalCode, "Internal error"), id)

\* The body of a POST.  parses: it is JSON; isObject: it is a JSON object;
\* then its members jsonrpc, method, id and params.
Body(parses, isObject, jsonrpc, method, params, id) ==
    [parses |-> parses, isObject |-> isObject, jsonrpc |-> jsonrpc,
     method |-> method, params |-> params, id |-> id]
NoBody == Body(FALSE, FALSE, Absent, Absent, Params("absent", NoVals), Absent)

\* `body.get("params", {})`
BodyParams(body) ==
    IF body.params.kind = "absent" THEN EmptyParams ELSE body.params
\* a variant that forgets the id
BodyIdNull(body) == JsonNull

\* `body.get("id")`, `body.get("method")`
BodyId(body) == IF body.id.kind = "absent" THEN JsonNull ELSE body.id
BodyMethod(body) == IF body.method.kind = "absent" THEN JsonNull ELSE body.method

\* The request the server is handling.  stage: "idle" before the first
\* request, "backend" suspended in a BitcoinRPCClient call, "external"
\* suspended in a GET of the external client, "done" once the response is
\* out.  entry: "rpc" for a POST to handle_rpc, "tool" for a call of
\* MCPProtocol.call_tool with the params `tool`; for the latter, route is
\* how call_tool ended and there is no envelope.
\* History: routed (route_method was called), invoked (how many times
\* a handler was called), calls (how many times _make_request was
\* called), raised (the exceptions that left _make_request, in order),
\* cause (the exception that ended the handler's `try` block), handler and
\* route (how each ended).
IdleRequest ==
    [stage |-> "idle", entry |-> "rpc", body |-> NoBody, tool |-> NoToolParams,
     routed |-> FALSE, invoked |-> 0,
     op |-> "", args |-> NoVals, step |-> 0, parts |-> <<>>,
     null_end |-> FALSE, calls |-> 0, raised |-> <<>>, cause |-> NoError,
     handler |-> HandlerPending, route |-> HandlerPending,
     response |-> NoResponse]

(***************************************************************************)
(* The client under concurrent callers: every task calls a method of the   *)
(* one BitcoinRPCClient, as the tool handlers and get_server_status do.    *)
(***************************************************************************)
Max(a, b) == IF a >= b THEN a ELSE b

Init ==
    /\ now = 0
    /\ rate_limit \in 0..MaxRateLimit
    /\ max_retries \in 0..MaxRetriesCfg
    /\ request_times = <<>>
    /\ call = [t \in Tasks |-> IdleCall]
    /\ checks = <<>>
    /\ ncalls = 0
    /\ globals = Globals(TRUE)
    /\ external_client = "unopened"
    /\ req = IdleRequest
    /\ nreq = 0
    /\ startup = Started

\* Task t calls _make_request, d seconds after the last event: the
\* admission check and, if admitted, the first POST.
Call(t, d) ==
    /\ call[t].pc = "idle"
    /\ ncalls < MaxCalls
    /\ now' = now + d
    /\ LET chk == CheckRateLimit(request_times, now', rate_limit) IN
        /\ request_times' = chk.times
        /\ checks' = Append(checks, [at |-> now', ok |-> chk.ok])
        /\ call' = [call EXCEPT ![t] =
                       StartCall("getblockchaininfo", chk.ok, rate_limit, max_retries, now')]
    /\ ncalls' = ncalls + 1
    /\ UNCHANGED <<rate_limit, max_retries>>
    /\ UNCHANGED front

\* The POST of task t comes back with r.
PostReturns(t, r) ==
    /\ call[t].pc = "post"
    /\ call' = [call EXCEPT ![t] = OnReply(call[t], r, max_retries, now)]
    /\ UNCHANGED <<now, rate_limit, max_retries, request_times, checks, ncalls>>
    /\ UNCHANGED front

\* The backoff sleep of task t is over.
Wake(t) ==
    /\ call[t].pc = "sleep"
    /\ now' = Max(now, call[t].wake)
    /\ call' = [call EXCEPT ![t] = OnWake(call[t], max_retries)]
    /\ UNCHANGED <<rate_limit, max_retries, request_times, checks, ncalls>>
    /\ UNCHANGED front

\* The caller of task t has the call's outcome; the task is free again.
Finish(t) ==
    /\ call[t].pc = "done"
    /\ call' = [call EXCEPT ![t] = IdleCall]
    /\ UNCHANGED <<now, rate_limit, max_retries, request_times, checks, ncalls>>
    /\ UNCHANGED front

\* One caller: each call begins after the one before has ended.
Next ==
    \/ \E t \in OneTask, d \in Deltas : Call(t, d)
    \/ \E t \in OneTask, r \in Replies : PostReturns(t, r)
    \/ \E t \in OneTask : Wake(t)
    \/ \E t \in OneTask : Finish(t)

Spec == Init /\ [][Next]_vars

\* Concurrent callers.  What a reply holds does not touch the rate window:
\* here a POST fails in the transport or succeeds, and a call makes one
\* attempt or two.
ConcurrentReplies == {TransportFailure, Reply("json", TRUE, NullError, "r1")}
ConcurrentRetries == {1, 2}

InitConcurrent ==
    /\ now = 0
    /\ rate_limit \in 1..MaxRateLimit
    /\ max_retries \in ConcurrentRetries
    /\ request_times = <<>>
    /\ call = [t \in Tasks |-> IdleCall]
    /\ checks = <<>>
    /\ ncalls = 0
    /\ globals = Globals(TRUE)
    /\ external_client = "unopened"
    /\ req = IdleRequest
    /\ nreq = 0
    /\ startup = Started

NextConcurrent ==
    \/ \E t \in Tasks, d \in Deltas : Call(t, d)
    \/ \E t \in Tasks, r \in ConcurrentReplies : PostReturns(t, r)
    \/ \E t \in Tasks : Wake(t)
    \/ \E t \in Tasks : Finish(t)

SpecConcurrent == InitConcurrent /\ [][NextConcurrent]_vars

(***************************************************************************)
(* Properties of the rate limiter.                                         *)
(***************************************************************************)
\* the admitted checks before check i all lie a full window or more before
\* it: check i finds the window empty once it has purged
WindowEmptyAt(i) ==
    \A j \in 1..(i - 1) : checks[j].ok => checks[i].at - checks[j].at >= Window

\* C1: of any run of admission checks i, i+1, ... that begins on an empty
\* window and lies within one 60-second span (every check less than 60 s
\* after the first), the first rate_limit are admitted and all the later
\* ones are rejected, whatever the spacing.
C1_FirstLimitAdmitted ==
    \A i \in 1..Len(checks) : \A k \in i..Len(checks) :
        (WindowEmptyAt(i) /\ checks[k].at - checks[i].at < Window)
            => (checks[k].ok <=> (k - i + 1 <= rate_limit))

\* C1's case: limit 2, three unevenly spaced checks within 59 s, the third
\* rejected
C1_Witness ==
    /\ rate_limit = 2
    /\ Len(checks) = 3
    /\ checks[2].at - checks[1].at # checks[3].at - checks[2].at
    /\ checks[3].at - checks[1].at = 59
    /\ checks[1].ok /\ checks[2].ok /\ ~checks[3].ok

\* the time of the latest admission check
LastCheckAt == checks[Len(checks)].at

\* C2: the rate window changes only inside an admission check; after any
\* check it holds at most rate_limit timestamps, each less than 60 seconds
\* before the time of that check.
C2_WindowBounded ==
    checks # <<>> =>
        /\ Len(request_times) <= rate_limit
        /\ \A i \in 1..Len(request_times) :
               LastCheckAt - request_times[i] < Window

\* C2's case: a check that found a full window holding a request exactly
\* 60 seconds old, dropped it and took its place
C2_Witness ==
    /\ rate_limit >= 1
    /\ Len(checks) >= 2
    /\ Len(request_times) = rate_limit
    /\ checks[Len(checks)].ok
    /\ \E j \in 1..(Len(checks) - 1) :
          /\ checks[j].ok
          /\ LastCheckAt - checks[j].at = Window
          /\ Cardinality({ k \in j..(Len(checks) - 1) : checks[k].ok }) = rate_limit

\* the admitted checks before check k that are less than `age` seconds old
\* at check k
YoungerThan(k, age) ==
    { j \in 1..(k - 1) : checks[j].ok /\ checks[k].at - checks[j].at < age }

\* C3: a request admitted 61 seconds or more before an admission check is
\* not counted by it: a check that has fewer than rate_limit admitted
\* requests younger than 61 seconds before it admits.
C3_OldRequestsNotCounted ==
    \A k \in 1..Len(checks) :
        Cardinality(YoungerThan(k, 61)) < rate_limit => checks[k].ok

\* C3's case: the window was filled 61 seconds or more ago, and the next
\* request is admitted
C3_Witness ==
    \E k \in 1..Len(checks) :
        /\ rate_limit >= 1
        /\ checks[k].ok
        /\ YoungerThan(k, 61) = {}
        /\ Cardinality({ j \in 1..(k - 1) : checks[j].ok }) >= rate_limit
        /\ \E j \in 1..(k - 1) : checks[j].ok /\ checks[k].at - checks[j].at = 61

(***************************************************************************)
(* Properties of _make_request.                                            *)
(***************************************************************************)
\* the POSTs a call has issued, and the backoff sleeps it has begun
NumPosts(c) == Cardinality({ i \in DOMAIN c.events : c.events[i].ev = "post" })
NumSleeps(c) == Cardinality({ i \in DOMAIN c.events : c.events[i].ev = "sleep" })

\* a 2xx reply that is a JSON object with no error
IsSuccess(r) == r.kind = "json" /\ r.isObject /\ r.error.shape = "null"

\* attempts 1 and 2 failed in the transport and attempt 3 succeeded
FailedTwiceThenSucceeded(c) ==
    /\ Len(c.replies) = 3
    /\ c.replies[1].kind = "transport"
    /\ c.replies[2].kind = "transport"
    /\ IsSuccess(c.replies[3])

\* C4: with max_retries = 3, a call whose POST fails in the transport on
\* attempts 1 and 2 and succeeds on attempt 3 returns the result of attempt
\* 3, having slept 1 second after attempt 1 and 2 seconds after attempt 2,
\* each sleep between two POSTs, and at least 3 seconds after its start.
C4_RetryThenSuccess ==
    \A t \in Tasks :
        (max_retries = 3 /\ FailedTwiceThenSucceeded(call[t])) =>
            /\ call[t].pc = "done"
            /\ call[t].outcome = Returned(call[t].replies[3].result)
            /\ call[t].events = <<PostEvent, SleepEvent(1), PostEvent,
                                  SleepEvent(2), PostEvent>>
            /\ now >= call[t].started + 3

\* C4's case, with a result that is not null
C4_Witness ==
    /\ max_retries = 3
    /\ \E t \in Tasks :
          /\ FailedTwiceThenSucceeded(call[t])
          /\ call[t].outcome = Returned("r2")

\* the reply to the latest POST of a call
LastReply(c) == c.replies[Len(c.replies)]

\* the latest reply is a JSON object whose error member is not null
RepliedWithError(c) ==
    /\ c.replies # <<>>
    /\ LastReply(c).kind = "json"
    /\ LastReply(c).isObject
    /\ LastReply(c).error.shape # "null"

\* the reply was the call's last: no POST and no sleep has followed it
NoFurtherAttempt(c) ==
    /\ c.pc = "done"
    /\ NumPosts(c) = Len(c.replies)
    /\ NumSleeps(c) = Len(c.replies) - 1
    /\ c.events[Len(c.events)] = PostEvent

AllTransport(c) ==
    /\ c.replies # <<>>
    /\ \A i \in 1..Len(c.replies) : c.replies[i].kind = "transport"

\* C6: a call all of whose attempts fail in the transport goes on until it
\* has issued max_retries POSTs and then ends, with no sleep after the
\* final attempt, raising the NetworkError recorded for that attempt, whose
\* code is -32003.
C6_RetriesExhausted ==
    \A t \in Tasks :
        AllTransport(call[t]) =>
            IF Len(call[t].replies) < max_retries
            THEN /\ call[t].pc \in {"sleep", "post"}
                 /\ NumPosts(call[t]) <= max_retries
            ELSE /\ Len(call[t].replies) = max_retries
                 /\ NumPosts(call[t]) = max_retries
                 /\ NoFurtherAttempt(call[t])
                 /\ call[t].outcome.kind = "error"
                 /\ call[t].outcome.error = call[t].last_error
                 /\ call[t].outcome.error.type = "NetworkError"
                 /\ call[t].outcome.error.message =
                        "Network error: POST " \o ToString(max_retries) \o " failed"
                 /\ call[t].outcome.error.code = -32003

\* C6's case: three attempts, all failed
C6_Witness ==
    \E t \in Tasks :
        /\ max_retries = 3
        /\ AllTransport(call[t])
        /\ Len(call[t].replies) = 3
        /\ call[t].pc = "done"

\* C7: a call the admission check rejects ends at once with the
\* RateLimitError: it issues no POST, takes no sleep and is not retried.
C7_RejectedAtOnce ==
    \A t \in Tasks :
        (call[t].pc # "idle" /\ ~call[t].admitted) =>
            /\ call[t].pc = "done"
            /\ call[t].outcome = Raised(RateLimitError(RateLimitMessage(rate_limit)))
            /\ call[t].outcome.error.code = -32004
            /\ call[t].events = <<>>
            /\ call[t].replies = <<>>

\* C7's case: a full window, retries configured, and the latest check,
\* that of this call, rejected
C7_Witness ==
    \E t \in Tasks :
        /\ rate_limit >= 1
        /\ max_retries = 3
        /\ call[t].pc = "done"
        /\ ~call[t].admitted
        /\ ~checks[Len(checks)].ok
        /\ LastCheckAt = call[t].started

(***************************************************************************)
(* The rate limiter under concurrent callers.                              *)
(***************************************************************************)
\* the admitted checks in the 60-second span that begins with check i
AdmittedWithin(i) ==
    { j \in 1..Len(checks) :
        /\ checks[j].ok
        /\ checks[j].at >= checks[i].at
        /\ checks[j].at - checks[i].at < Window }

\* C8: a task runs _check_rate_limit from its first line to its last with
\* no await in between, so no other task runs inside it; whatever the
\* interleaving of the tasks' steps, no 60-second span (one that starts
\* with an admitted request and ends less than 60 s later) holds more than
\* rate_limit admitted requests.
C8_NoSpanOverLimit ==
    \A i \in 1..Len(checks) :
        checks[i].ok => Cardinality(AdmittedWithin(i)) <= rate_limit

\* C8's case: one task is rejected while the other, admitted less than 60
\* seconds before, is still in its backoff sleep
C8_Witness ==
    \E t \in Tasks, u \in Tasks :
        /\ t # u
        /\ call[t].pc = "sleep"
        /\ call[t].admitted
        /\ call[u].pc = "done"
        /\ ~call[u].admitted
        /\ call[u].started >= call[t].started
        /\ call[u].started - call[t].started < Window

(***************************************************************************)
(* A bare JSON-RPC request, from handle_rpc down to the backend and back.  *)
(* The code that runs between two awaits is one step of the machine below: *)
(* it maps the system's state S (t: the time; rt, c: the transport's       *)
(* request_times and the call of task 1; ext: external_client; r: the      *)
(* request) to the state at the next await or at the response.  The        *)
(* histories checks and ncalls are those of the client's own               *)
(* specifications; here the request counts its calls itself.               *)
(***************************************************************************)
CurrentStep(S) == StepAt(S.r.op, S.r.args, S.r.step)

\* {"content": result}
Content(v) == Value("content:" \o v.shape, v.parts, v.text)

\* call_tool ends
ToolEnds(S, o) == [S EXCEPT !.r.stage = "done", !.r.route = o]

\* The end of call_tool's `try` block for the way its handler ended: the
\* result wrapped as content, a BitcoinMCPError raised again, any other
\* exception turned into a ValidationError holding its text.
ToolOutcome(name, o) ==
    IF o.kind = "result" THEN HandlerReturned(Content(o.value))
    ELSE IF IsTaxonomyError(o.error) THEN o
    ELSE HandlerRaised(ValidationError(
            "Error executing tool '" \o name \o "': " \o o.error.message, ""))

\* route_method ends, by itself or with its handler (for call_tool: the
\* handler has ended)
RouteEnds(S, o) ==
    IF S.r.entry = "tool"
    THEN ToolEnds(S, ToolOutcome(Show(ToolName(S.r.tool)), o))
    ELSE [S EXCEPT !.r.stage = "done", !.r.route = o,
                   !.r.response = Envelope(o, BodyId(S.r.body))]

\* the handler ends; route_method's `return await` passes on what it gave
HandlerEnds(S, o) ==
    RouteEnds([S EXCEPT !.r.handler = o], o)

\* the `except` clauses around an external GET
InnerWrap(s, e) ==
    IF s.via \in {"ext", "mkt"}
    THEN ValidationError((IF e.type = "HTTPError" THEN s.on_http ELSE s.on_other)
                            \o e.message, "")
    ELSE e

\* The `except Exception as e` that closes the handler's `try` block, or
\* the clauses around its one GET, for the exception `cause` raised inside
\* it (e: the same once the clauses around a GET have wrapped it):
\* get_server_status reports str(e) in its result, every tool handler
\* raises a ValidationError holding str(e).
HandlerFails(S0, cause, e) ==
    LET S == [S0 EXCEPT !.r.cause = cause] IN
    IF S.r.op = "get_server_status"
    THEN HandlerEnds(S, HandlerReturned(Value(S.r.op, S.r.parts, e.message)))
    ELSE IF FailPrefix(S.r.op, S.r.args) = ""
    THEN HandlerEnds(S, HandlerRaised(e))
    ELSE HandlerEnds(S, HandlerRaised(
            ValidationError(FailPrefix(S.r.op, S.r.args) \o e.message, "")))

RECURSIVE RunFrom(_), AfterAwait(_, _, _, _)

\* The handler's code after the await of its current step: the await gave
\* `value` (ok) or raised e.
AfterAwait(S, ok, value, e) ==
    LET s == CurrentStep(S)
        next == [S EXCEPT !.r.step = @ + 1]
    IN  IF ok /\ ~(s.deref = "now" /\ value = "null")
        THEN RunFrom([next EXCEPT
                !.r.parts = Append(@, value),
                !.r.null_end = @ \/ (s.deref = "end" /\ value = "null")])
        ELSE IF s.swallow THEN RunFrom(next)
        ELSE HandlerFails(S, IF ok THEN NoneTypeError ELSE e,
                          InnerWrap(s, IF ok THEN NoneTypeError ELSE e))

\* the await of a BitcoinRPCClient method is over: _make_request has ended
CallEnded(S) ==
    LET free == [S EXCEPT !.c = IdleCall] IN
    IF S.c.outcome.kind = "result"
    THEN AfterAwait(free, TRUE, S.c.outcome.value, NoError)
    ELSE AfterAwait([free EXCEPT !.r.raised = Append(@, S.c.outcome.error)],
                    FALSE, "null", S.c.outcome.error)

\* The handler from the top of its current step to its next suspension or
\* to its end.  A BitcoinRPCClient call runs _check_rate_limit and, when it
\* is admitted and has an attempt to make, suspends in the POST; a GET
\* enters `async with self.external_client`, which a closed client refuses.
RunFrom(S) ==
    IF S.r.step > NumSteps(S.r.op, S.r.args, globals)
    THEN IF S.r.null_end
         THEN HandlerFails(S, NoneTypeError, NoneTypeError)
         ELSE HandlerEnds(S, HandlerReturned(Value(S.r.op, S.r.parts, "")))
    ELSE IF CurrentStep(S).via = "rpc"
    THEN LET chk == CheckRateLimit(S.rt, S.t, rate_limit)
             c == StartCall(CurrentStep(S).method, chk.ok, rate_limit, max_retries, S.t)
             S1 == [S EXCEPT !.rt = chk.times, !.c = c, !.r.calls = @ + 1]
         IN  IF c.pc = "done" THEN CallEnded(S1)
             ELSE [S1 EXCEPT !.r.stage = "backend"]
    ELSE IF CurrentStep(S).via = "mkt"
    THEN IF TryCheck(S.r.op, S.r.args) # NoError
         THEN AfterAwait(S, FALSE, "null", TryCheck(S.r.op, S.r.args))
         ELSE [S EXCEPT !.r.stage = "external"]
    ELSE IF S.ext = "closed"
    THEN AfterAwait(S, FALSE, "null", ClientClosed)
    ELSE [S EXCEPT !.ext = "opened", !.r.stage = "external"]

\* route_method calls the handler `op` with `args`
Invoke(S, op, args) ==
    LET S1 == [S EXCEPT !.r.invoked = @ + 1, !.r.op = op, !.r.args = args,
                        !.r.step = 1]
    IN  IF Precheck(op, args) # NoError
        THEN HandlerEnds(S1, HandlerRaised(Precheck(op, args)))
        ELSE RunFrom(S1)

\* `result = await route_method(method, params)`
Dispatch(S) ==
    LET way == Route(Show(BodyMethod(S.r.body)), BodyParams(S.r.body), globals)
        S1 == [S EXCEPT !.r.routed = TRUE]
    IN  CASE way.do = "raise" -> RouteEnds(S1, HandlerRaised(way.error))
          [] way.do = "none"  -> RouteEnds(S1, HandlerReturned(None))
          [] OTHER            -> Invoke(S1, way.op, way.args)

\* MCPProtocol.call_tool(params), to its first await or to its end
CallToolFrom(S0, tp) ==
    LET S == [S0 EXCEPT !.r = [IdleRequest EXCEPT !.entry = "tool", !.tool = tp]]
        way == ToolRoute(tp, globals)
    IN  IF way.do = "raise" THEN ToolEnds(S, HandlerRaised(way.error))
        ELSE Invoke(S, way.op, way.args)

\* the response to a request that never reaches route_method
Reject(S, response) == [S EXCEPT !.r.stage = "done", !.r.response = response]

\* handle_rpc, for the POST body `body`, to its first await or its response.
\* A body that is no JSON object has no .get: the AttributeError leaves
\* handle_rpc and general_exception_handler answers.
HandleRpc(S0, body) ==
    LET S == [S0 EXCEPT !.r = [IdleRequest EXCEPT !.body = body]] IN
    IF ~body.parses
    THEN Reject(S, ErrorResponse(400, ErrorMember(ParseErrorCode, "Parse error"), JsonNull))
    ELSE IF ~body.isObject
    THEN Reject(S, ErrorResponse(500, ErrorMember(InternalCode, "Internal error"), JsonNull))
    ELSE IF body.jsonrpc # JStr("2.0")
    THEN Reject(S, ErrorResponse(400, ErrorMember(InvalidRequestCode, "Invalid Request"),
                                 BodyId(body)))
    ELSE Dispatch(S)

(***************************************************************************)
(* The server under bare JSON-RPC requests, one after the other.           *)
(***************************************************************************)
\* the system's state at time t, and its commitment to the variables
Sys(t) ==
    [t |-> t, rt |-> request_times, c |-> call[1], ext |-> external_client,
     r |-> req]
Commit(S) ==
    /\ request_times' = S.rt
    /\ call' = [call EXCEPT ![1] = S.c]
    /\ external_client' = S.ext
    /\ req' = S.r

\* the parameter objects the requests of the model carry, by method
One(k, v) == [x \in ParamNames |-> IF x = k THEN v ELSE Absent]
Two(k1, v1, k2, v2) ==
    [x \in ParamNames |-> IF x = k1 THEN v1 ELSE IF x = k2 THEN v2 ELSE Absent]
HeightValues == {Absent, JInt(0), JInt(-1), JStr("abc")}
HashValues == {Absent, JStr(""), JStr("abc"), JStr(Hash64)}
CountValues == {Absent, JsonNull, JInt(0), JInt(1), JInt(51), JStr("abc")}
RangeValues == {Absent, JInt(0), JInt(100), JInt(101)}
AddressValues == {Absent, JStr("abc"), JStr(GenesisAddress)}
LimitValues == {Absent, JInt(0), JInt(50)}
ValsFor(m) ==
    CASE m = "get_block_by_height" ->
            {Two("height", h, "include_transactions", t) :
                h \in HeightValues, t \in {Absent, JBool(TRUE)}}
      [] m = "get_block_by_hash" -> {One("block_hash", h) : h \in HashValues}
      [] m = "get_transaction" -> {One("tx_hash", h) : h \in HashValues}
      [] m = "get_latest_blocks" -> {One("count", c) : c \in CountValues}
      [] m = "search_blocks" ->
            {Two("start_height", a, "end_height", b) :
                a \in RangeValues, b \in RangeValues}
      [] m \in {"validate_address", "get_address_balance", "get_address_utxos",
                "analyze_address_activity"} ->
            {One("address", a) : a \in AddressValues}
      [] m = "get_address_transactions" ->
            {Two("address", a, "limit", l) : a \in AddressValues, l \in LimitValues}
      [] m = "get_current_price" -> {One("currency", c) : c \in {Absent, JStr("eur")}}
      [] m = "get_price_history" ->
            {Two("days", d, "currency", c) :
                d \in {Absent, JInt(30)}, c \in {Absent, JStr("eur")}}
      [] OTHER -> {NoVals}

\* the methods requests name: the catalog, get_server_status, and a name
\* that is in neither
RpcMethods == Catalog \cup {"get_server_status", "no_such_method"}
RpcIds == {JInt(7)}

\* the POST bodies of the model
RpcBodies ==
    {Body(FALSE, FALSE, Absent, Absent, Params("absent", NoVals), Absent),
     Body(TRUE, FALSE, Absent, Absent, Params("absent", NoVals), Absent),
     Body(TRUE, TRUE, Absent, JStr("get_server_status"), EmptyParams, JInt(7)),
     Body(TRUE, TRUE, JStr("1.0"), JStr("get_server_status"), EmptyParams, JInt(7)),
     Body(TRUE, TRUE, JStr("2.0"), Absent, EmptyParams, JInt(7)),
     Body(TRUE, TRUE, JStr("2.0"), JStr("get_server_status"), EmptyParams, Absent),
     Body(TRUE, TRUE, JStr("2.0"), JStr("get_blockchain_info"),
          Params("absent", NoVals), JInt(7))}
    \cup {Body(TRUE, TRUE, JStr("2.0"), JStr(m), Params("other", NoVals), id) :
            m \in RpcMethods, id \in RpcIds}
    \cup UNION {{Body(TRUE, TRUE, JStr("2.0"), JStr(m), Params("object", v), id) :
                    v \in ValsFor(m), id \in RpcIds} : m \in RpcMethods}

\* the configurations and the backend's answers of these behaviours
RpcRateLimits == {1, MaxRateLimit + 1}
RpcRetries == {0, 2}
RpcReplies ==
    {TransportFailure,
     Reply("json", TRUE, NullError, "r1"),
     Reply("json", TRUE, NullError, "null"),
     Reply("json", TRUE, ErrObj("object", TRUE, TRUE), "null")}
RpcDeltas == {0, 60}

\* the state once lifespan's startup has run: the globals all set, or all
\* None when the client could not be initialised
InitRpc ==
    /\ now = 0
    /\ rate_limit \in RpcRateLimits
    /\ max_retries \in RpcRetries
    /\ request_times = <<>>
    /\ call = [t \in Tasks |-> IdleCall]
    /\ checks = <<>>
    /\ ncalls = 0
    /\ globals \in {Globals(TRUE), Globals(FALSE)}
    /\ external_client = "unopened"
    /\ req = IdleRequest
    /\ nreq = 0
    /\ startup = Started

\* A POST arrives, d seconds after the last event: handle_rpc runs to its
\* first await or to its response.
Receive(body, d) ==
    /\ req.stage = "idle"
    /\ nreq < MaxRequests
    /\ now' = now + d
    /\ Commit(HandleRpc(Sys(now'), body))
    /\ nreq' = nreq + 1
    /\ UNCHANGED <<rate_limit, max_retries, checks, ncalls, globals, startup>>

\* The POST to the node comes back with r: _make_request goes on and, if
\* it ends, so does the handler.
BackendReplies(r) ==
    /\ req.stage = "backend"
    /\ call[1].pc = "post"
    /\ LET S == [Sys(now) EXCEPT !.c = OnReply(call[1], r, max_retries, now)] IN
        Commit(IF S.c.pc = "done" THEN CallEnded(S) ELSE S)
    /\ UNCHANGED <<now, rate_limit, max_retries, checks, ncalls, globals, nreq,
                   startup>>

\* The backoff sleep of the handler's call is over.
BackoffOver ==
    /\ req.stage = "backend"
    /\ call[1].pc = "sleep"
    /\ now' = Max(now, call[1].wake)
    /\ LET S == [Sys(now') EXCEPT !.c = OnWake(call[1], max_retries)] IN
        Commit(IF S.c.pc = "done" THEN CallEnded(S) ELSE S)
    /\ UNCHANGED <<rate_limit, max_retries, checks, ncalls, globals, nreq, startup>>

\* The GET of an external client comes back with x; leaving the
\* `async with` block closes the client of AddressTools.
ExternalReplies(x) ==
    /\ req.stage = "external"
    /\ LET S == [Sys(now) EXCEPT
                    !.ext = IF CurrentStep(Sys(now)).via = "ext" THEN "closed" ELSE @] IN
        Commit(CASE x = "data" -> AfterAwait(S, TRUE, "data", NoError)
                 [] x = "null" -> AfterAwait(S, TRUE, "null", NoError)
                 [] OTHER      -> AfterAwait(S, FALSE, "null", ExternalFailure))
    /\ UNCHANGED <<now, rate_limit, max_retries, checks, ncalls, globals, nreq,
                   startup>>

\* handle_rpc has returned: the response is on the wire and the request is
\* over.
ResponseSent ==
    /\ req.stage = "done"
    /\ req' = IdleRequest
    /\ UNCHANGED <<now, rate_limit, max_retries, request_times, call, checks,
                   ncalls, globals, external_client, nreq, startup>>

NextRpc ==
    \/ \E body \in RpcBodies, d \in RpcDeltas : Receive(body, d)
    \/ ResponseSent
    \/ \E r \in RpcReplies : BackendReplies(r)
    \/ BackoffOver
    \/ \E x \in ExtReplies : ExternalReplies(x)

SpecRpc == InitRpc /\ [][NextRpc]_vars

(***************************************************************************)
(* The tools under calls of MCPProtocol.call_tool, one after the other.    *)
(* The protocol object is built from tool instances, any of which may be   *)
(* None; `globals` holds them.                                             *)
(***************************************************************************)
\* the tool instances the protocol object is built from: all, none, all but
\* the market tools, the market tools alone
ToolSets ==
    {Globals(TRUE), Globals(FALSE),
     [Globals(TRUE) EXCEPT !.market_tools = FALSE],
     [Globals(FALSE) EXCEPT !.market_tools = TRUE]}

\* the arguments the calls of the model carry, by tool: those of the bare
\* requests, and a currency and a number of days of the wrong type
ToolValsFor(name) ==
    ValsFor(name) \cup
    (CASE name = "get_current_price" -> {One("currency", JInt(5))}
       [] name = "get_price_history" -> {One("days", JStr("abc")), One("days", JInt(0))}
       [] OTHER -> {})

\* the params of the calls of the model
McpCalls ==
    {ToolParams("other", Absent, Params("absent", NoVals)),
     ToolParams("object", Absent, Params("absent", NoVals)),
     ToolParams("object", JStr("no_such_method"), EmptyParams),
     ToolParams("object", JStr("get_server_status"), EmptyParams)}
    \cup {ToolParams("object", JStr(name), Params(k, NoVals)) :
            name \in TOOLS, k \in {"absent", "other"}}
    \cup UNION {{ToolParams("object", JStr(name), Params("object", v)) :
                    v \in ToolValsFor(name)} : name \in TOOLS}

\* the transport's configuration in these behaviours
McpRateLimits == {MaxRateLimit}

InitMcp ==
    /\ now = 0
    /\ rate_limit \in McpRateLimits
    /\ max_retries \in RpcRetries
    /\ request_times = <<>>
    /\ call = [t \in Tasks |-> IdleCall]
    /\ checks = <<>>
    /\ ncalls = 0
    /\ globals \in ToolSets
    /\ external_client = "unopened"
    /\ req = IdleRequest
    /\ nreq = 0
    /\ startup = Started

\* call_tool is called with the params tp, d seconds after the last event,
\* and runs to its first await or to its end.
CallTool(tp, d) ==
    /\ req.stage = "idle"
    /\ nreq < MaxRequests
    /\ now' = now + d
    /\ Commit(CallToolFrom(Sys(now'), tp))
    /\ nreq' = nreq + 1
    /\ UNCHANGED <<rate_limit, max_retries, checks, ncalls, globals, startup>>

\* call_tool has returned or raised: its caller has the outcome.
ToolReturned ==
    /\ req.stage = "done"
    /\ req' = IdleRequest
    /\ UNCHANGED <<now, rate_limit, max_retries, request_times, call, checks,
                   ncalls, globals, external_client, nreq, startup>>

NextMcp ==
    \/ \E tp \in McpCalls, d \in RpcDeltas : CallTool(tp, d)
    \/ ToolReturned
    \/ \E r \in RpcReplies : BackendReplies(r)
    \/ BackoffOver
    \/ \E x \in ExtReplies : ExternalReplies(x)

SpecMcp == InitMcp /\ [][NextMcp]_vars

(***************************************************************************)
(* The server from its start: lifespan, then bare JSON-RPC requests.       *)
(***************************************************************************)
\* the requests of these behaviours: every operation of the catalog
StartupBodies ==
    UNION {{Body(TRUE, TRUE, JStr("2.0"), JStr(m), Params("object", v), id) :
               v \in ValsFor(m), id \in RpcIds} : m \in Catalog}

\* the module as imported: every global None, lifespan not yet entered
InitStartup ==
    /\ now = 0
    /\ rate_limit = MaxRateLimit
    /\ max_retries = MaxRetriesCfg
    /\ request_times = <<>>
    /\ call = [t \in Tasks |-> IdleCall]
    /\ checks = <<>>
    /\ ncalls = 0
    /\ globals = Globals(FALSE)
    /\ external_client = "unopened"
    /\ req = IdleRequest
    /\ nreq = 0
    /\ startup = NotStarted

\* where startup can fail: nowhere; in BitcoinRPCClient() or __aenter__,
\* before the httpx client exists; in a tools constructor, after it
StartupFailures == {"none", "client", "tools"}

\* lifespan up to its yield.  On a failure `except Exception` sets every
\* global to None; otherwise all five are set.  Whether the node is
\* reachable plays no part: nothing is sent to it.
Lifespan(failure, reachable) ==
    /\ startup.stage = "pending"
    /\ globals' = IF failure # "none" THEN Globals(FALSE) ELSE Globals(TRUE)
    /\ startup' = StartupState("done", failure # "none", reachable,
                               IF failure = "client" THEN "unopened" ELSE "opened")
    /\ UNCHANGED <<now, rate_limit, max_retries, request_times, call, checks,
                   ncalls, external_client, req, nreq>>

\* lifespan after its yield, no request in hand: `if bitcoin_client:` calls
\* __aexit__, which closes the httpx client if there is one.
Shutdown ==
    /\ startup.stage = "done"
    /\ req.stage = "idle"
    /\ startup' = [startup EXCEPT
                      !.stage = "stopped",
                      !.client = IF globals.bitcoin_client /\ @ = "opened"
                                 THEN "closed" ELSE @]
    /\ UNCHANGED <<now, rate_limit, max_retries, request_times, call, checks,
                   ncalls, globals, external_client, req, nreq>>

\* requests are served once startup has yielded
Serve(body, d) == startup.stage = "done" /\ Receive(body, d)

\* what a POST to the node comes back with: a node that cannot be reached
\* fails every POST in the transport
NodeReplies == IF startup.reachable THEN RpcReplies ELSE {TransportFailure}

NextStartup ==
    \/ \E failure \in StartupFailures, reachable \in BOOLEAN :
          Lifespan(failure, reachable)
    \/ Shutdown
    \/ \E body \in StartupBodies, d \in RpcDeltas : Serve(body, d)
    \/ ResponseSent
    \/ \E r \in NodeReplies : BackendReplies(r)
    \/ BackoffOver
    \/ \E x \in ExtReplies : ExternalReplies(x)

SpecStartup == InitStartup /\ [][NextStartup]_vars

(***************************************************************************)
(* The server under its default configuration, with a node that answers    *)
(* every call at once: get_latest_blocks requests on an empty rate window. *)
(***************************************************************************)
\* Config.RATE_LIMIT_PER_MINUTE
DefaultRateLimit == 60
\* Config.MAX_RETRIES
DefaultMaxRetries == 3

\* the counts of these requests: the ends of the documented bound, and the
\* two counts around 60 backend calls
LatestCounts == {1, 29, 30, 50}
LatestBodies ==
    {Body(TRUE, TRUE, JStr("2.0"), JStr("get_latest_blocks"),
          Params("object", One("count", JInt(n))), id) :
        n \in LatestCounts, id \in RpcIds}

\* the node's answer to every call: a JSON object with a result
Success == Reply("json", TRUE, NullError, "r1")

InitDefaults ==
    /\ now = 0
    /\ rate_limit = DefaultRateLimit
    /\ max_retries = DefaultMaxRetries
    /\ request_times = <<>>
    /\ call = [t \in Tasks |-> IdleCall]
    /\ checks = <<>>
    /\ ncalls = 0
    /\ globals = Globals(TRUE)
    /\ external_client = "unopened"
    /\ req = IdleRequest
    /\ nreq = 0
    /\ startup = Started

\* a request that arrives when no timestamp in the window is unexpired
ReceiveOnEmptyWindow(body, d) ==
    /\ Purge(request_times, now + d) = <<>>
    /\ Receive(body, d)

NextDefaults ==
    \/ \E body \in LatestBodies, d \in RpcDeltas : ReceiveOnEmptyWindow(body, d)
    \/ BackendReplies(Success)
    \/ ResponseSent

SpecDefaults == InitDefaults /\ [][NextDefaults]_vars

(***************************************************************************)
(* Properties of the bare JSON-RPC front door.                             *)
(***************************************************************************)
\* the handler of the request ended on an exception of the transport `type`
\* that left _make_request
EndedOn(type) ==
    /\ req.stage = "done"
    /\ req.raised # <<>>
    /\ req.cause = req.raised[Len(req.raised)]
    /\ req.cause.type = type

\* C9: when the backend call of a bare JSON-RPC request fails in the
\* transport, the response carries the error's own code: -32003 after a
\* transport failure that exhausted its retries, -32004 after a rate-limit
\* rejection.
C9_TransportErrorCodeUnchanged ==
    /\ EndedOn("NetworkError") =>
          req.response.has_error /\ req.response.error.code = NetworkCode
    /\ EndedOn("RateLimitError") =>
          req.response.has_error /\ req.response.error.code = RateLimitCode

\* the method and the parameters of the request in hand
Method == Show(BodyMethod(req.body))
Parameters == BodyParams(req.body)

\* the request names an operation of the catalog, every capability is
\* available, and the parameters are an object that passes the operation's
\* presence tests and its handler's validation
ValidCatalogRequest ==
    /\ req.routed
    /\ Method \in Catalog
    /\ globals = Globals(TRUE)
    /\ Parameters.kind = "object"
    /\ RouteChain(Method, Parameters).do = "handler"
    /\ Precheck(Method, RouteChain(Method, Parameters).args) = NoError

\* C10: for every operation of the catalog, with its capability available
\* and valid parameters, route_method invokes the operation's handler
\* exactly once with the validated/defaulted parameters, and ends exactly as
\* the handler ended.
C10_HandlerInvokedOnce ==
    ValidCatalogRequest =>
        /\ req.invoked = 1
        /\ req.op = Method
        /\ req.args = RouteChain(Method, Parameters).args
        /\ req.stage = "done" => req.route = req.handler

(***************************************************************************)
(* Properties of the two dispatchers.                                      *)
(***************************************************************************)
\* the operation name and the arguments a dispatcher has been given:
\* route_method by handle_rpc, or call_tool by its caller
Dispatched ==
    \/ req.entry = "rpc" /\ req.routed
    \/ req.entry = "tool" /\ req.stage # "idle" /\ req.tool.kind = "object"
DispatchedName ==
    IF req.entry = "tool" THEN Show(ToolName(req.tool)) ELSE Method
DispatchedArguments ==
    IF req.entry = "tool" THEN ToolArguments(req.tool) ELSE Parameters

\* a dispatcher's way is to raise a ValidationError before any handler
RaisesValidation(way) == way.do = "raise" /\ way.error.type = "ValidationError"

\* C11: a Market operation dispatched while the Market capability is
\* unavailable ends in a Validation error with no handler invoked: the
\* dispatch in hand does, and so do route_method and call_tool each, given
\* its name and arguments.
C11_MarketGated ==
    (Dispatched /\ DispatchedName \in MarketMethods /\ ~globals.market_tools) =>
        /\ req.stage = "done"
        /\ req.invoked = 0
        /\ req.route.kind = "error"
        /\ req.route.error.type = "ValidationError"
        /\ req.route.error.code = ValidationCode
        /\ RaisesValidation(Route(DispatchedName, DispatchedArguments, globals))
        /\ RaisesValidation(ToolRoute(
              ToolParams("object", JStr(DispatchedName), DispatchedArguments), globals))

\* C11's case: call_tool was given get_price_history while the protocol
\* object holds every tool but the market tools, and raised
C11_Witness ==
    /\ req.entry = "tool"
    /\ req.stage = "done"
    /\ DispatchedName = "get_price_history"
    /\ globals.blockchain_tools /\ ~globals.market_tools
    /\ req.invoked = 0
    /\ req.route.error.message = "Market tools not available"

\* the id of the request in hand, null when it has none
RequestId == IF req.body.id.kind = "absent" THEN JsonNull ELSE req.body.id

\* the response to the request in hand is the error "Method '<name>' not
\* found" with code -32602 and the request's id, and nothing was invoked
AnsweredNotFound ==
    /\ req.stage = "done"
    /\ req.invoked = 0
    /\ req.calls = 0
    /\ req.response.has_error /\ ~req.response.has_result
    /\ req.response.error.code = ValidationCode
    /\ req.response.error.message = "Method '" \o Method \o "' not found"
    /\ req.response.id = RequestId

\* C12 as stated: a bare JSON-RPC request whose method is not one of the 19
\* catalog operations is answered with the error -32602 "Method '<name>'
\* not found" under the request's id, and no handler is invoked.
C12_UnknownMethodNotFound ==
    (req.entry = "rpc" /\ req.routed /\ Method \notin Catalog) => AnsweredNotFound

\* C12, amended: the same for every method that is neither a catalog
\* operation nor get_server_status, which route_method serves itself.
C12_UnknownMethodNotFoundButStatus ==
    (req.entry = "rpc" /\ req.routed
        /\ Method \notin Catalog \cup {"get_server_status"}) => AnsweredNotFound

\* C12's case: a request for no_such_method with id 7 has been answered
C12_Witness ==
    /\ req.stage = "done"
    /\ req.routed
    /\ Method = "no_such_method"
    /\ req.response.id = JInt(7)
    /\ req.response.error.message = "Method 'no_such_method' not found"

\* route_method has been given get_latest_blocks, with every capability
\* available and an object for params
LatestBlocksRequested ==
    /\ req.entry = "rpc" /\ req.routed
    /\ Method = "get_latest_blocks"
    /\ globals = Globals(TRUE)
    /\ Parameters.kind = "object"

\* the response is a Validation error whose data names `field`, and no
\* backend call was made
RejectedNaming(field) ==
    /\ req.stage = "done"
    /\ req.calls = 0
    /\ req.response.has_error
    /\ req.response.error.code = ValidationCode
    /\ req.response.error.has_data
    /\ req.response.error.data = FieldData(field)

\* C13: get_latest_blocks with count 0, 51 or "abc" is answered with a
\* Validation error (-32602) whose data names the field "count", with no
\* backend call; with count omitted the handler runs with count = 10.
C13_CountBounds ==
    LatestBlocksRequested =>
        /\ Parameters.vals["count"] \in {JInt(0), JInt(51), JStr("abc")}
              => RejectedNaming("count")
        /\ Parameters.vals["count"] = Absent
              => req.invoked = 1 /\ req.args["count"] = JInt(10)

\* the response to the POST is out
Answered == req.entry = "rpc" /\ req.stage = "done" /\ req.response.sent

\* C14: a POST body that is no JSON is answered with exactly
\* {jsonrpc: "2.0", error: {code: -32700, message: "Parse error"}, id: null},
\* and route_method is not called for it.
C14_ParseError ==
    (Answered /\ ~req.body.parses) =>
        /\ req.response.jsonrpc = "2.0"
        /\ ~req.response.has_result
        /\ req.response.has_error
        /\ req.response.error.code = -32700
        /\ req.response.error.message = "Parse error"
        /\ ~req.response.error.has_data
        /\ req.response.id = JsonNull
        /\ ~req.routed /\ req.invoked = 0 /\ req.calls = 0

\* the answer to a body that is no JSON is out
C14_Witness ==
    /\ Answered /\ ~req.body.parses
    /\ req.response.error.code = ParseErrorCode
    /\ req.response.status = 400

\* the body is JSON with a top-level member jsonrpc equal to "2.0"
CarriesVersion(body) ==
    body.parses /\ body.isObject /\ body.jsonrpc = JStr("2.0")

\* C15: a POST body that is JSON but carries no top-level jsonrpc member
\* equal to "2.0" (missing, another value, or no JSON object at all) is
\* answered with an Invalid Request error, code -32600, and route_method is
\* not called for it.
C15_InvalidRequest ==
    (Answered /\ req.body.parses /\ ~CarriesVersion(req.body)) =>
        /\ req.response.has_error
        /\ req.response.error.code = -32600
        /\ ~req.routed

\* C16: every response to a request that passed the jsonrpc == "2.0" check
\* carries jsonrpc "2.0", exactly one of the members result and error, and
\* the id of the request (null for a request without one), whether
\* route_method returned or raised.
C16_EnvelopeShape ==
    (Answered /\ CarriesVersion(req.body)) =>
        /\ req.routed
        /\ req.response.jsonrpc = "2.0"
        /\ req.response.has_result # req.response.has_error
        /\ req.response.has_result <=> req.route.kind = "result"
        /\ req.response.id = RequestId

\* an error response after a backend call, carrying the request's id
C16_Witness ==
    /\ Answered /\ CarriesVersion(req.body)
    /\ req.calls > 0
    /\ req.route.kind = "error"
    /\ req.response.has_error /\ ~req.response.has_result
    /\ req.response.id = JInt(7)

\* C17: every call of _make_request, for every max_retries (0 included) and
\* every behaviour of the backend, ends after at most max_retries POSTs
\* with one outcome: a result value or an error of the taxonomy.
C17_TaxonomyOutcome ==
    \A t \in Tasks :
        /\ NumPosts(call[t]) <= max_retries
        /\ call[t].pc = "done" =>
              \/ call[t].outcome.kind = "result"
              \/ /\ call[t].outcome.kind = "error"
                 /\ IsTaxonomyError(call[t].outcome.error)

\* an exception outside the taxonomy was raised under route_method: it left
\* _make_request, or it ended the `try` block of a handler
UnclassifiedRaised ==
    \/ req.cause.type # "None" /\ ~IsTaxonomyError(req.cause)
    \/ \E i \in 1..Len(req.raised) : ~IsTaxonomyError(req.raised[i])

\* C18: when the handling of a bare JSON-RPC request fails with an exception
\* outside the taxonomy, raised anywhere under route_method, the response
\* carries code -32603 and the fixed message "Internal error", and nothing
\* else that could hold the exception's own text.
C18_InternalErrorOpaque ==
    (Answered /\ req.routed /\ UnclassifiedRaised) =>
        /\ req.response.has_error /\ ~req.response.has_result
        /\ req.response.error.code = -32603
        /\ req.response.error.message = "Internal error"
        /\ ~req.response.error.has_data

\* call_tool has ended, for a tool name that is a string and arguments that
\* are a mapping
ToolCallEnded ==
    /\ req.entry = "tool" /\ req.stage = "done"
    /\ req.tool.kind = "object"
    /\ ToolName(req.tool).kind = "str"
    /\ ToolArguments(req.tool).kind = "object"

\* errors of the same kind, code and message
SameError(e, f) ==
    e.type = f.type /\ e.code = f.code /\ e.message = f.message

\* call_tool ended as route_method ends when its handler ends with `o`
\* (or, with no handler, when it ends with `o` itself): {content: r} for
\* the result r, the same error for an error
EndedAsRoute(o) ==
    IF o.kind = "result"
    THEN req.route = HandlerReturned(Content(o.value))
    ELSE req.route.kind = "error" /\ SameError(req.route.error, o.error)

\* C19: call_tool and route_method are the same dispatch: given the same
\* name, arguments, capabilities and backend behaviour, call_tool returns
\* {content: r} exactly when route_method returns r, and raises an error
\* of the same kind, code and message exactly when route_method raises
\* one.  route_method's end is that of Route for the name and arguments:
\* the error it raises, None, or whatever the handler it names ends with.
C19_SameDispatch ==
    ToolCallEnded =>
        LET way == Route(DispatchedName, DispatchedArguments, globals) IN
        CASE way.do = "raise" -> EndedAsRoute(HandlerRaised(way.error))
          [] way.do = "none" -> EndedAsRoute(HandlerReturned(None))
          [] OTHER ->
                /\ req.invoked = 1
                /\ req.op = way.op /\ req.args = way.args
                /\ EndedAsRoute(req.handler)

\* startup has run and failed: its `try` block raised, or the node cannot
\* be reached
StartupFailed ==
    startup.stage = "done" /\ (startup.raised \/ ~startup.reachable)

\* C20: if constructing or probing the transport fails at startup, an
\* unreachable node included, startup still completes and leaves all four
\* capabilities unavailable, and every catalog operation dispatched
\* afterwards is rejected with a Validation error, no handler invoked.
C20_StartupFailureDisables ==
    StartupFailed =>
        /\ ~globals.blockchain_tools /\ ~globals.network_tools
        /\ ~globals.address_tools /\ ~globals.market_tools
        /\ (Answered /\ req.routed /\ Method \in Catalog) =>
              /\ req.invoked = 0
              /\ req.route.kind = "error"
              /\ req.route.error.type = "ValidationError"
              /\ req.response.error.code = ValidationCode

\* C21: on every path through lifespan, the transport's HTTP client that
\* startup opened is closed by the time shutdown completes.
C21_TransportClientClosed ==
    startup.stage = "stopped" => startup.client # "opened"

\* C22: within one _make_request call the admission check runs once per
\* outbound attempt, before that attempt's POST, retries included: every
\* step in which a call issues a POST also makes an admission check, which
\* admits it.
C22_CheckPerAttempt ==
    [][\A t \in Tasks :
          NumPosts(call'[t]) > NumPosts(call[t]) =>
              /\ Len(checks') = Len(checks) + 1
              /\ checks'[Len(checks')].ok]_vars

\* the times of the admitted checks that are less than 60 seconds old at the
\* latest check, in order
AdmittedUnexpired ==
    LET kept == SelectSeq(checks, LAMBDA c : c.ok /\ LastCheckAt - c.at < 60)
    IN  [i \in 1..Len(kept) |-> kept[i].at]

\* C23: a rejected admission is not recorded: after every check the window
\* holds the unexpired times of the admitted requests and nothing else, so
\* a rejection never delays the next admission.
C23_RejectedNotRecorded ==
    checks # <<>> => request_times = AdmittedUnexpired

\* C23's case: limit 1, a request admitted, one rejected 59 seconds later,
\* and one admitted 59 seconds after the rejection, when the first has
\* expired and the rejected one, had it been recorded, would not have
C23_Witness ==
    /\ rate_limit = 1
    /\ Len(checks) = 3
    /\ checks[1].ok /\ ~checks[2].ok /\ checks[3].ok
    /\ checks[2].at - checks[1].at = 59
    /\ checks[3].at - checks[2].at = 59
    /\ request_times = <<checks[3].at>>

\* the latest reply has a body that does not parse as JSON
RepliedUnparseable(c) ==
    c.replies # <<>> /\ LastReply(c).kind = "badjson"

\* C24: when the backend's body fails to parse as JSON, _make_request makes
\* no further attempt and takes no backoff sleep, whatever attempts remain,
\* and fails with a BitcoinRPCError of code -32000.
C24_BadJsonNotRetried ==
    \A t \in Tasks :
        RepliedUnparseable(call[t]) =>
            /\ NoFurtherAttempt(call[t])
            /\ call[t].outcome.kind = "error"
            /\ call[t].outcome.error.type = "BitcoinRPCError"
            /\ call[t].outcome.error.code = -32000

\* C24's case: three attempts configured, the first fails in the
\* transport, the second brings an unparseable body
C24_Witness ==
    \E t \in Tasks :
        /\ max_retries = 3
        /\ Len(call[t].replies) = 2
        /\ call[t].replies[1].kind = "transport"
        /\ RepliedUnparseable(call[t])
        /\ call[t].pc = "done"
        /\ NumPosts(call[t]) = 2

\* whether the capability the catalog operation `name` belongs to is held
CapabilityAvailable(name, g) ==
    CASE name \in BlockchainMethods -> g.blockchain_tools
      [] name \in NetworkMethods -> g.network_tools
      [] name \in AddressMethods -> g.address_tools
      [] OTHER -> g.market_tools

\* a Validation error that reports an unavailable capability and names no
\* parameter
Unavailability(e) ==
    /\ e.type = "ValidationError" /\ e.code = ValidationCode
    /\ e.data.kind = "none"
    /\ e.message \in
         {"Bitcoin RPC client not available. Please check your configuration.",
          "Market tools not available. Please check your configuration.",
          "Blockchain tools not available", "Network tools not available",
          "Address tools not available", "Market tools not available"}

\* the way of a dispatcher is to raise the unavailability error
RaisesUnavailability(way) == way.do = "raise" /\ Unavailability(way.error)

\* C25: the capability check precedes parameter validation: a catalog
\* operation whose capability is unavailable is rejected with the
\* unavailability Validation error whatever its parameters, missing or
\* malformed ones included, by the dispatch in hand and by route_method
\* and call_tool each, and no handler is invoked.
C25_CapabilityCheckedFirst ==
    (/\ Dispatched
     /\ DispatchedName \in Catalog
     /\ ~CapabilityAvailable(DispatchedName, globals)) =>
        /\ req.stage = "done"
        /\ req.invoked = 0
        /\ req.route.kind = "error"
        /\ Unavailability(req.route.error)
        /\ RaisesUnavailability(Route(DispatchedName, DispatchedArguments, globals))
        /\ RaisesUnavailability(ToolRoute(
              ToolParams("object", JStr(DispatchedName), DispatchedArguments), globals))

\* C25's case: call_tool was given get_block_by_height without a height
\* while the protocol object holds no blockchain tools
C25_Witness ==
    /\ req.entry = "tool"
    /\ req.stage = "done"
    /\ DispatchedName = "get_block_by_height"
    /\ DispatchedArguments.kind = "object"
    /\ DispatchedArguments.vals["height"] = Absent
    /\ ~globals.blockchain_tools
    /\ req.route.error.message = "Blockchain tools not available"

\* the parameters the operation declares as required
RequiredParameters(method) ==
    CASE method = "get_block_by_height" -> {"height"}
      [] method = "get_block_by_hash" -> {"block_hash"}
      [] method = "get_transaction" -> {"tx_hash"}
      [] method = "search_blocks" -> {"start_height", "end_height"}
      [] method \in AddressMethods -> {"address"}
      [] OTHER -> {}

\* C26: an operation dispatched with a required parameter absent is
\* answered with a Validation error (-32602) whose data names the missing
\* field, and its handler is not invoked.
C26_MissingFieldNamed ==
    (/\ Answered /\ req.routed
     /\ globals = Globals(TRUE)
     /\ Parameters.kind = "object") =>
        \A field \in RequiredParameters(Method) :
            (/\ Parameters.vals[field] = Absent
             /\ \A other \in RequiredParameters(Method) \ {field} :
                   Parameters.vals[other] # Absent) =>
                /\ req.invoked = 0
                /\ RejectedNaming(field)

\* the Address operations that read the external service
AddressReads ==
    {"get_address_balance", "get_address_transactions", "get_address_utxos",
     "analyze_address_activity"}

\* C27: every backend operation is an idempotent read, so the outcome of an
\* Address operation depends on its parameters and on what the service
\* answers, not on the calls made before it: none fails because an
\* earlier GET has used the external client up.
C27_AddressReadRepeatable ==
    (Answered /\ req.invoked = 1 /\ req.op \in AddressReads) =>
        req.cause # ClientClosed

\* the request in hand is search_blocks with two integer heights
SearchRequested ==
    /\ req.entry = "rpc" /\ req.routed
    /\ Method = "search_blocks"
    /\ globals = Globals(TRUE)
    /\ Parameters.kind = "object"
    /\ Parameters.vals["start_height"].kind = "int"
    /\ Parameters.vals["end_height"].kind = "int"

\* the number of blocks in the inclusive range the request names
BlocksInRange ==
    Parameters.vals["end_height"].n - Parameters.vals["start_height"].n + 1

\* C28: search_blocks enforces a maximum of 100 blocks: a request with
\* start_height > end_height, or whose inclusive range covers more than
\* 100 blocks, is rejected with a Validation error before any backend
\* call.
C28_RangeAtMostHundred ==
    (SearchRequested /\ (BlocksInRange <= 0 \/ BlocksInRange > 100)) =>
        /\ req.stage = "done"
        /\ req.calls = 0
        /\ req.route.kind = "error"
        /\ req.route.error.type = "ValidationError"
        /\ req.route.error.code = ValidationCode

\* C29: with the default limit of 60 requests per minute, an empty rate
\* window and a backend that answers every call, get_latest_blocks
\* succeeds for every count from 1 to 50.
C29_LatestBlocksWithinLimit ==
    (/\ Answered /\ req.routed
     /\ Method = "get_latest_blocks"
     /\ Parameters.vals["count"].kind = "int"
     /\ Parameters.vals["count"].n \in 1..50) =>
        /\ req.route.kind = "result"
        /\ req.response.has_result

\* get_mempool_stats has been answered and its getmempoolinfo call returned
\* (had it raised, the handler would have ended with nothing gathered)
MempoolInfoReturned ==
    /\ Answered /\ req.invoked = 1
    /\ req.op = "get_mempool_stats"
    /\ req.parts # <<>>

\* the request succeeded after all seven calls, and its result holds at
\* most the answers of the calls that did not raise
SucceededPastFeeFailures ==
    /\ req.route.kind = "result"
    /\ req.response.has_result
    /\ req.calls = 7
    /\ Len(req.route.value.parts) <= 7 - Len(req.raised)

============================================================================
